---- MODULE Spec2Model ----
(***************************************************************************)
(* Token lifecycle and session persistence of gotrue-js (src/user.ts,      *)
(* here src/unnamed/part_004): the User class, the module-level            *)
(* currentUser, refreshPromises and the localStorage slot 'gotrue.user'.   *)
(*                                                                         *)
(* Scheduling model: JavaScript's single thread.  One action of this       *)
(* module is one task of the event loop together with the microtasks it    *)
(* queues: a call made by the application, the arrival of a Transport      *)
(* response, or the firing of a timer.  Promise reactions of a settled     *)
(* promise therefore run inside the action that settles it.                *)
(***************************************************************************)
EXTENDS Integers, Sequences, FiniteSets, TLC

VARIABLES
    now,              \* Date.now(), in ms
    users,            \* the User objects constructed so far, by identity 1..Len
    currentUser,      \* module variable currentUser: an identity, or NoUser
    localStorage,     \* localStorage['gotrue.user']: a JSON text, or NoItem
    refreshPromises,  \* module variable refreshPromises: refresh_token -> promise
    races,            \* the refresh races of _refreshToken whose request is in flight
    ops,              \* the calls of logout() that have not settled
    console,          \* what the latest task wrote with console.error
    setCookie,        \* the option setCookie of the GoTrue object
    defaultHeaders,   \* api.defaultHeaders of the API object of the GoTrue object
    last              \* the latest event: the call, response or timer, and its outcome

vars == <<now, users, currentUser, localStorage, refreshPromises, races, ops,
          console, setCookie, defaultHeaders, last>>

----------------------------------------------------------------------------
(* Bounds of the model *)

MaxUsers == 2       \* User objects constructed
MaxRaces == 2       \* refresh requests in flight at one time
MaxOps == 1         \* calls of _request under way at one time
MaxCalls == 2       \* the same, where authentication calls run side by side
MaxAttrs == 2       \* keys in one attribute map

(* Program constants *)

ExpiryMargin == 60000
RefreshTimeout == 30000

----------------------------------------------------------------------------
(* JavaScript values.  Every value is a record, so that a property of any  *)
(* type can be compared with a value of any other type.                    *)

Undefined == [t |-> "undefined"]
Null == [t |-> "null"]
NaN == [t |-> "NaN"]
Num(n) == [n |-> n]
Str(s) == [s |-> s]
Bool(b) == [b |-> b]
IsNum(v) == DOMAIN v = {"n"}
IsTokenObject(v) == "access_token" \in DOMAIN v

NoUser == 0
NoPromise == 0
NoItem == [t |-> "absent"]
NoRace == [state |-> "none"]
NoOp == [pc |-> "none"]

----------------------------------------------------------------------------
(* Inputs: what the identity service and the application may supply *)

Instants == {0, RefreshTimeout + 1}

AccessTokens == {"h.exp60.s", "h.exp90.s", "h.bad.s"}
RefreshTokens == {"r1", "r2"}

(* A token response of '/token'.  expires_in and token_type are carried    *)
(* along unread and are left out.  The service sends no expires_at.        *)
TokenResponses ==
    { [access_token |-> "h.exp60.s", refresh_token |-> "r1", expires_at |-> Undefined],
      [access_token |-> "h.exp90.s", refresh_token |-> "r2", expires_at |-> Undefined],
      [access_token |-> "h.bad.s", refresh_token |-> "r1", expires_at |-> Undefined] }

(* Access tokens of every shape: with a payload that has exp, a payload    *)
(* that is no JSON, a payload without exp, the payload null, a payload of  *)
(* illegal length, a payload that is no base64, and a token without dots   *)
AnyAccessTokens ==
    AccessTokens \cup {"h.noexp.s", "h.null.s", "h.len5.s", "h.e#p.s", "opaque"}

(* An expires_at that a token response may carry *)
CarriedExpiry == Num(5000)

(* Token responses with any access token, and some that carry expires_at  *)
(* as the Token type allows                                                *)
AnyTokenResponses ==
    { [access_token |-> a, refresh_token |-> "r1", expires_at |-> Undefined] :
          a \in AnyAccessTokens }
    \cup { [access_token |-> a, refresh_token |-> "r1", expires_at |-> CarriedExpiry] :
               a \in {"h.exp60.s", "h.bad.s", "h.noexp.s"} }

Audiences == {"aud"}
TransportErrors == {"invalid_grant"}

NoTokenError == "Gotrue-js: failed getting jwt access token"
TimeoutError == "Token refresh timeout"

(* The API object handed to the constructor *)
TheApi == [apiURL |-> "https://id.example"]

(* Property names of a User object that the model tracks.  "jwt" stands    *)
(* for the names defined on User.prototype.                                *)
PropNames == {"api", "url", "audience", "token", "_fromStorage", "email", "jwt"}
AttrValues == {Str("v1")}

(* Attribute maps: the objects handed to _saveUserData *)
AttributeMaps ==
    UNION { [K -> AttrValues] : K \in {S \in SUBSET PropNames : Cardinality(S) <= MaxAttrs} }

(* Texts that another script may leave in localStorage['gotrue.user']: the *)
(* empty text, a text that is not JSON, the text null, and snapshots that  *)
(* lack url or token.  A JSON text is written as the value it denotes.     *)
StoredTexts ==
    { Str(""), Str("{oops"), Null,
      [token |-> [access_token |-> "h.exp90.s", refresh_token |-> "r2"],
       audience |-> Str("aud")],
      [url |-> Str("https://id.example"), audience |-> Str("aud")],
      [url |-> Str("https://id.example"), token |-> Null, audience |-> Str("aud")] }

(* The audience of a GoTrue object: undefined when none was given *)
GoTrueAudiences == {Undefined, Str("aud")}

(* options.audience of a call of _request *)
RequestAudiences == {Undefined, Str(""), Str("other")}

(* The user data that '/user' answers with *)
UserDatas ==
    { [email |-> Str("v1")], [email |-> Str("v1"), token |-> Str("v1")] }

(* The errors that Transport fails a request with: JSONHTTPErrors with     *)
(* their json, a TextHTTPError, and the TypeError of fetch                 *)
JSONHTTPError(json) ==
    [name |-> "JSONHTTPError", message |-> <<"Bad Request">>, json |-> json]

HTTPErrors ==
    { JSONHTTPError([msg |-> Str("User not found")]),
      JSONHTTPError([msg |-> Str("User not found"), error |-> Str("invalid_grant"),
                     error_description |-> Str("Invalid credentials")]),
      JSONHTTPError([msg |-> Str(""), error |-> Str("invalid_grant"),
                     error_description |-> Str("Invalid credentials")]),
      JSONHTTPError([error |-> Str("invalid_grant"),
                     error_description |-> Str("Invalid credentials")]),
      JSONHTTPError([error |-> Str("access_denied")]),
      JSONHTTPError([error |-> Str(""), error_description |-> Str("Invalid credentials")]),
      JSONHTTPError([code |-> Num(500)]),
      JSONHTTPError(Null),
      [name |-> "TextHTTPError", message |-> <<"Bad Gateway">>, json |-> Undefined],
      [name |-> "TypeError", message |-> <<"Failed to fetch">>, json |-> Undefined] }

----------------------------------------------------------------------------
(* Module-level constants of user.ts *)

forbiddenUpdateAttributes == {"api", "token", "audience", "url"}
forbiddenSaveAttributes == {"api"}

(* key in User.prototype *)
InUserPrototype(key) ==
    key \in {"constructor", "admin", "update", "jwt", "logout", "_refreshToken",
             "_request", "getUserData", "_saveUserData", "_processTokenResponse",
             "_refreshSavedSession", "_details", "_saveSession", "tokenDetails",
             "clearSession", "toString", "valueOf", "hasOwnProperty", "__proto__"}

----------------------------------------------------------------------------
(* Token codec, as _processTokenResponse uses it *)

(* What an access token of the model consists of.  A segment is described  *)
(* by its length, by whether atob accepts its characters, and by the text  *)
(* its bytes decode to.  A text that is JSON is written as the value it    *)
(* denotes, any other text as a Str.                                       *)
Segment(length, alphabet, text) ==
    [length |-> length, alphabet |-> alphabet, text |-> text]

(* access_token.split('.') *)
split(access_token) ==
    LET header == Segment(1, TRUE, Str("h"))
        signature == Segment(1, TRUE, Str("s"))
    IN  CASE access_token = "h.exp60.s" ->
                 <<header, Segment(12, TRUE, [exp |-> Num(60)]), signature>>
          [] access_token = "h.exp90.s" ->
                 <<header, Segment(11, TRUE, [exp |-> Num(90)]), signature>>
          [] access_token = "h.bad.s" ->
                 <<header, Segment(7, TRUE, Str("junk")), signature>>
          [] access_token = "h.noexp.s" ->
                 <<header, Segment(14, TRUE, [sub |-> Str("u1")]), signature>>
          [] access_token = "h.null.s" ->
                 <<header, Segment(6, TRUE, Null), signature>>
          [] access_token = "h.len5.s" ->
                 <<header, Segment(5, TRUE, [exp |-> Num(60)]), signature>>
          [] access_token = "h.e#p.s" ->
                 <<header, Segment(12, FALSE, [exp |-> Num(60)]), signature>>
          [] OTHER -> <<Segment(6, TRUE, Str("opaque"))>>

(* urlBase64Decode(str), lines 244-268: the text, or the exception.  The   *)
(* TextDecoder of line 264 replaces bytes that are not UTF-8 and does not  *)
(* throw.                                                                  *)
urlBase64Decode(str) ==
    IF str = Undefined
    THEN [throws |-> TRUE, error |-> <<"TypeError">>, value |-> Undefined]
    ELSE IF str.length % 4 = 1
    THEN [throws |-> TRUE, error |-> <<"Error", "Illegal base64url string!">>,
          value |-> Undefined]
    ELSE IF ~str.alphabet
    THEN [throws |-> TRUE, error |-> <<"InvalidCharacterError">>, value |-> Undefined]
    ELSE [throws |-> FALSE, error |-> <<>>, value |-> str.text]

(* JSON.parse(text): the value, or a SyntaxError, whose message may quote  *)
(* the text                                                                 *)
JSONparse(text) ==
    IF DOMAIN text = {"s"}
    THEN [throws |-> TRUE, error |-> <<"SyntaxError", text.s>>, value |-> Undefined]
    ELSE [throws |-> FALSE, error |-> <<>>, value |-> text]

(* access_token.split('.')[1] *)
payload(segments) == IF Len(segments) >= 2 THEN segments[2] ELSE Undefined

(* JSON.parse of what urlBase64Decode returned, if it returned *)
parseDecoded(decoded) ==
    IF decoded.throws
    THEN [throws |-> TRUE, error |-> decoded.error, value |-> Undefined]
    ELSE JSONparse(decoded.value)

(* claims.exp, on the right-hand side of line 194: the value, undefined    *)
(* for a member that is not there, or the TypeError of a member of null    *)
readExp(claims) ==
    IF claims.throws
    THEN [throws |-> TRUE, error |-> claims.error, exp |-> Undefined]
    ELSE IF claims.value = Null
    THEN [throws |-> TRUE, error |-> <<"TypeError">>, exp |-> Undefined]
    ELSE [throws |-> FALSE, error |-> <<>>,
          exp |-> IF "exp" \in DOMAIN claims.value
                  THEN claims.value.exp ELSE Undefined]

(* JSON.parse(urlBase64Decode(access_token.split('.')[1])) and the read of *)
(* claims.exp, line 193 and the right-hand side of line 194: the value of  *)
(* exp, or the exception.                                                   *)
parseClaims(access_token) ==
    readExp(parseDecoded(urlBase64Decode(payload(split(access_token)))))

(* claims.exp * 1000: null counts as 0, and undefined or a text that is   *)
(* not a number gives NaN                                                  *)
times1000_unscaled(v) ==
    IF IsNum(v) THEN v ELSE IF v = Null THEN Num(0) ELSE NaN

times1000(v) ==
    IF IsNum(v) THEN Num(v.n * 1000) ELSE IF v = Null THEN Num(0) ELSE NaN

(* lines 191-194: this.token after the try block, given what parseClaims  *)
(* gave                                                                     *)
tokenWith_clearsExpiry(tokenResponse, claims) ==
    IF claims.throws
    THEN [tokenResponse EXCEPT !.expires_at = Undefined]
    ELSE [tokenResponse EXCEPT !.expires_at = times1000(claims.exp)]

tokenWith(tokenResponse, claims) ==
    IF claims.throws
    THEN tokenResponse
    ELSE [tokenResponse EXCEPT !.expires_at = times1000(claims.exp)]

(* The token held after _processTokenResponse(tokenResponse) *)
_processTokenResponse(tokenResponse) ==
    tokenWith(tokenResponse, parseClaims(tokenResponse.access_token))

(* What _processTokenResponse(tokenResponse) writes with console.error,    *)
(* line 196                                                                 *)
claimsError_withToken(tokenResponse, error) ==
    <<"Gotrue-js: Failed to parse tokenResponse claims: ">> \o error
        \o <<tokenResponse.access_token>>

claimsError(tokenResponse, error) ==
    <<"Gotrue-js: Failed to parse tokenResponse claims: ">> \o error

logWith(tokenResponse, claims) ==
    IF claims.throws THEN <<claimsError(tokenResponse, claims.error)>> ELSE <<>>

_processTokenResponseLog(tokenResponse) ==
    logWith(tokenResponse, parseClaims(tokenResponse.access_token))

----------------------------------------------------------------------------
(* The heap: the mutable state the methods of User work on.  Three fields  *)
(* describe the current task only: done collects the logout() calls that   *)
(* settle in it, value is what a promise of _refreshToken settles with in  *)
(* it, and log is what it writes with console.error.                       *)

Heap ==
    [users |-> users, currentUser |-> currentUser, localStorage |-> localStorage,
     refreshPromises |-> refreshPromises, races |-> races, ops |-> ops,
     setCookie |-> setCookie, defaultHeaders |-> defaultHeaders,
     done |-> {}, value |-> "", log |-> <<>>]

Commit(h) ==
    /\ users' = h.users
    /\ currentUser' = h.currentUser
    /\ localStorage' = h.localStorage
    /\ refreshPromises' = h.refreshPromises
    /\ races' = h.races
    /\ ops' = h.ops
    /\ console' = h.log
    /\ setCookie' = h.setCookie
    /\ defaultHeaders' = h.defaultHeaders

UserIds == 1..Len(users)

(* new User(api, tokenResponse, audience) *)
newUser_keepsCurrent(h, api, tokenResponse, audience) ==
    LET this == [k \in PropNames |->
                    CASE k = "api" -> api
                      [] k = "url" -> Str(api.apiURL)
                      [] k = "audience" -> audience
                      [] k = "token" -> _processTokenResponse(tokenResponse)
                      [] OTHER -> Undefined]
    IN  [h EXCEPT !.users = Append(@, this),
                  !.currentUser = IF @ = NoUser THEN Len(h.users) + 1 ELSE @,
                  !.log = @ \o _processTokenResponseLog(tokenResponse)]

newUser(h, api, tokenResponse, audience) ==
    LET this == [k \in PropNames |->
                    CASE k = "api" -> api
                      [] k = "url" -> Str(api.apiURL)
                      [] k = "audience" -> audience
                      [] k = "token" -> _processTokenResponse(tokenResponse)
                      [] OTHER -> Undefined]
    IN  [h EXCEPT !.users = Append(@, this), !.currentUser = Len(h.users) + 1,
                  !.log = @ \o _processTokenResponseLog(tokenResponse)]

tokenDetails(this) == this.token

(* User.removeSavedSession(), in a browser *)
removeSavedSession(h) == [h EXCEPT !.localStorage = NoItem]

(* clearSession(), lines 228-232 *)
clearSession_keepsReference(h, u) ==
    [removeSavedSession(h) EXCEPT !.users[u].token = Null]

clearSession(h, u) ==
    [removeSavedSession(h) EXCEPT !.users[u].token = Null, !.currentUser = NoUser]

(* JSON.stringify of a value: undefined members are left out *)
stringify(v) ==
    IF IsTokenObject(v)
    THEN IF v.expires_at = Undefined
         THEN [access_token |-> v.access_token, refresh_token |-> v.refresh_token]
         ELSE [access_token |-> v.access_token, refresh_token |-> v.refresh_token,
               expires_at |-> IF v.expires_at = NaN THEN Null ELSE v.expires_at]
    ELSE v

(* JSON.stringify(this._details) *)
_details(this) ==
    LET keys == {k \in PropNames :
                    /\ ~InUserPrototype(k)
                    /\ k \notin forbiddenSaveAttributes
                    /\ this[k] # Undefined}
    IN  [k \in keys |-> stringify(this[k])]

_saveSession(h, u) == [h EXCEPT !.localStorage = _details(h.users[u])]

(* if (v): null, undefined, NaN, 0, '' and false are falsy *)
Truthy(v) ==
    v \notin {Undefined, Null, NaN, NoItem, Str(""), Num(0), Bool(FALSE)}

(* lines 200-206: the snapshot is rewritten if getItem gives a truthy item *)
_refreshSavedSession_always(h, u) == _saveSession(h, u)

_refreshSavedSession(h, u) ==
    IF Truthy(h.localStorage) THEN _saveSession(h, u) ELSE h

(* The for-in loop of _saveUserData, then the fromStorage marker *)
_saveUserData_unprotected(this, attributes, fromStorage) ==
    LET copied == {k \in DOMAIN attributes : ~InUserPrototype(k)}
        merged == [k \in PropNames |-> IF k \in copied THEN attributes[k] ELSE this[k]]
    IN  IF fromStorage THEN [merged EXCEPT !._fromStorage = Bool(TRUE)] ELSE merged

_saveUserData_overwritesMembers(this, attributes, fromStorage) ==
    LET copied == {k \in DOMAIN attributes : k \notin forbiddenUpdateAttributes}
        merged == [k \in PropNames |-> IF k \in copied THEN attributes[k] ELSE this[k]]
    IN  IF fromStorage THEN [merged EXCEPT !._fromStorage = Bool(TRUE)] ELSE merged

_saveUserData_marksEveryMerge(this, attributes, fromStorage) ==
    LET copied == {k \in DOMAIN attributes :
                      ~(InUserPrototype(k) \/ k \in forbiddenUpdateAttributes)}
        merged == [k \in PropNames |-> IF k \in copied THEN attributes[k] ELSE this[k]]
    IN  [merged EXCEPT !._fromStorage = Bool(TRUE)]

_saveUserData(this, attributes, fromStorage) ==
    LET copied == {k \in DOMAIN attributes :
                      ~(InUserPrototype(k) \/ k \in forbiddenUpdateAttributes)}
        merged == [k \in PropNames |-> IF k \in copied THEN attributes[k] ELSE this[k]]
    IN  IF fromStorage THEN [merged EXCEPT !._fromStorage = Bool(TRUE)] ELSE merged

----------------------------------------------------------------------------
(* recoverSession() *)

(* data[key] of a parsed object: an absent member reads as undefined, also *)
(* the expires_at of a stored token                                        *)
property(data, key) ==
    LET v == IF key \in DOMAIN data THEN data[key] ELSE Undefined
    IN  IF IsTokenObject(v) /\ "expires_at" \notin DOMAIN v
        THEN [k \in DOMAIN v \cup {"expires_at"} |->
                 IF k = "expires_at" THEN Undefined ELSE v[k]]
        ELSE v

(* line 53: the current user, if there is one *)
recoverCurrent_never(h) == NoUser

recoverCurrent(h) == h.currentUser

(* line 62 *)
snapshotComplete(url, token) == Truthy(url) /\ Truthy(token)

(* line 66: apiInstance || new API(url, {}) *)
recoverApi_storedUrl(apiInstance, data) == [apiURL |-> property(data, "url").s]

recoverApi(apiInstance, data) ==
    IF apiInstance # Undefined THEN apiInstance ELSE [apiURL |-> property(data, "url").s]

(* line 67: ._saveUserData(data, true) of the User just constructed *)
recovered_unmarked(h, data) ==
    [h |-> [h EXCEPT !.users[h.currentUser] = _saveUserData(@, data, FALSE)],
     kind |-> "recovered", value |-> h.currentUser]

recovered(h, data) ==
    [h |-> [h EXCEPT !.users[h.currentUser] = _saveUserData(@, data, TRUE)],
     kind |-> "recovered", value |-> h.currentUser]

(* lines 66-67: new User(api, token, audience)._saveUserData(data, true) *)
recoverUser(h, apiInstance, data) ==
    recovered(newUser(h, recoverApi(apiInstance, data), property(data, "token"),
                      property(data, "audience")),
              data)

(* lines 68-71: the catch-handler logs and returns null *)
recoverCatch_rethrows(h, error) ==
    [h |-> h, kind |-> "threw", value |-> NoUser]

recoverCatch(h, error) ==
    [h |-> [h EXCEPT !.log = Append(@, <<"Gotrue-js: Error recovering session: ">>
                                           \o error)],
     kind |-> "unparsable", value |-> NoUser]

(* lines 60-67, given what JSON.parse gave *)
recoverParsed(h, apiInstance, parsed) ==
    IF parsed.throws
    THEN recoverCatch(h, parsed.error)
    ELSE IF parsed.value = Null
    THEN recoverCatch(h, <<"TypeError">>)
    ELSE IF ~snapshotComplete(property(parsed.value, "url"),
                              property(parsed.value, "token"))
    THEN [h |-> h, kind |-> "incomplete", value |-> NoUser]
    ELSE recoverUser(h, apiInstance, parsed.value)

(* User.recoverSession(apiInstance), in a browser: the heap afterwards,    *)
(* the User returned, or NoUser for null, and the return statement taken   *)
recoverSession(h, apiInstance) ==
    IF recoverCurrent(h) # NoUser
    THEN [h |-> h, kind |-> "current", value |-> recoverCurrent(h)]
    ELSE IF ~Truthy(h.localStorage)
    THEN [h |-> h, kind |-> "absent", value |-> NoUser]
    ELSE recoverParsed(h, apiInstance, JSONparse(h.localStorage))

(* recoverSession() would construct a User *)
recoverConstructs(h) ==
    /\ h.currentUser = NoUser
    /\ Truthy(h.localStorage)
    /\ ~JSONparse(h.localStorage).throws
    /\ h.localStorage # Null
    /\ snapshotComplete(property(h.localStorage, "url"),
                        property(h.localStorage, "token"))

----------------------------------------------------------------------------
(* jwt() and the refresh protocol *)

(* A free slot of a table of races or calls: such objects are identified   *)
(* by their slot, and a slot is free again once its object is garbage.     *)
HasFree(table, none) == \E i \in DOMAIN table : table[i] = none
FreeSlot(table, none) ==
    CHOOSE i \in DOMAIN table :
        table[i] = none /\ \A j \in DOMAIN table : table[j] = none => i <= j

(* jwt, line 91: no token is held *)
tokenMissing_undefinedOnly(token) == token = Undefined

tokenMissing(token) == token = Null \/ token = Undefined

(* jwt, line 95: expires_at - ExpiryMargin < Date.now().  A comparison     *)
(* with undefined or NaN is false, and null counts as 0.                  *)
tokenExpiring_inverted(expires_at, t) ==
    IsNum(expires_at) /\ expires_at.n - ExpiryMargin > t

tokenExpiring_inclusive(expires_at, t) ==
    IsNum(expires_at) /\ expires_at.n - ExpiryMargin <= t

tokenExpiring_unsetStale(expires_at, t) ==
    \/ IsNum(expires_at) /\ expires_at.n - ExpiryMargin < t
    \/ expires_at = Null /\ 0 - ExpiryMargin < t
    \/ expires_at = Undefined

tokenExpiring(expires_at, t) ==
    \/ IsNum(expires_at) /\ expires_at.n - ExpiryMargin < t
    \/ expires_at = Null /\ 0 - ExpiryMargin < t

(* _refreshToken, line 108 *)
existingPromise_none(h, refresh_token) == NoPromise

existingPromise(h, refresh_token) == h.refreshPromises[refresh_token]

(* delete refreshPromises[refresh_token], lines 126 and 135 *)
deleteTicket_keep(h, refresh_token) == h

deleteTicket(h, refresh_token) ==
    [h EXCEPT !.refreshPromises[refresh_token] = NoPromise]

(* _refreshToken(refresh_token) at time t: the heap afterwards and the     *)
(* promise returned.  A new promise races the '/token' request against a   *)
(* timer of RefreshTimeout ms.                                              *)
_refreshToken(h, u, refresh_token, t) ==
    IF existingPromise(h, refresh_token) # NoPromise
    THEN [h |-> h, kind |-> "promise", value |-> "existing",
          promise |-> existingPromise(h, refresh_token)]
    ELSE LET p == FreeSlot(h.races, NoRace)
             refreshRequest ==
                 [path |-> "/token", body |-> <<"refresh_token", refresh_token>>]
             promise ==
                 [user |-> u, refresh_token |-> refresh_token,
                  request |-> refreshRequest, deadline |-> t + RefreshTimeout,
                  state |-> "pending"]
         IN  [h |-> [h EXCEPT !.races[p] = promise,
                              !.refreshPromises[refresh_token] = p],
              kind |-> "promise", value |-> "new", promise |-> p]

(* jwt(forceRefresh) at time t: the heap afterwards and what is returned:  *)
(* a rejected promise, a resolved promise, or the promise of a refresh.    *)
jwt(h, u, forceRefresh, t) ==
    LET token == tokenDetails(h.users[u])
    IN  IF tokenMissing(token)
        THEN [h |-> h, kind |-> "rejected", value |-> NoTokenError, promise |-> NoPromise]
        ELSE IF ~IsTokenObject(token)
        THEN [h |-> h, kind |-> "threw", value |-> "TypeError", promise |-> NoPromise]
        ELSE IF forceRefresh \/ tokenExpiring(token.expires_at, t)
        THEN _refreshToken(h, u, token.refresh_token, t)
        ELSE [h |-> h, kind |-> "resolved", value |-> token.access_token,
              promise |-> NoPromise]

(* jwt() needs a slot for a new race *)
jwtStartsRace(h, u, forceRefresh, t) ==
    LET token == tokenDetails(h.users[u])
    IN  /\ IsTokenObject(token)
        /\ forceRefresh \/ tokenExpiring(token.expires_at, t)
        /\ existingPromise(h, token.refresh_token) = NoPromise

----------------------------------------------------------------------------
(* _request(), and the methods built on it: logout(), getUserData(),       *)
(* update()                                                                *)

(* The default headers of the API object: {} and, as the constructor of   *)
(* GoTrue sets them, { 'X-Nf-Client': clientName }, index.ts 63            *)
EmptyHeaders == [X_Nf_Client |-> Undefined, X_Use_Cookie |-> Undefined]
ClientHeaders == [X_Nf_Client |-> Str("gotrue-js"), X_Use_Cookie |-> Undefined]

(* The headers of a request that the model tracks; undefined for a header  *)
(* that is not there                                                       *)
NoHeaders == [X_JWT_AUD |-> Undefined, Authorization |-> Undefined]

(* lines 147-150 (in the facade, index.ts 68-71): the audience header *)
audienceHeader_ownFirst(headers, optionsAudience, thisAudience) ==
    LET aud == IF Truthy(thisAudience) THEN thisAudience ELSE optionsAudience
    IN  IF Truthy(aud) THEN [headers EXCEPT !.X_JWT_AUD = aud] ELSE headers

audienceHeader(headers, optionsAudience, thisAudience) ==
    LET aud == IF Truthy(optionsAudience) THEN optionsAudience ELSE thisAudience
    IN  IF Truthy(aud) THEN [headers EXCEPT !.X_JWT_AUD = aud] ELSE headers

(* lines 155-157: Authorization: `Bearer ${token}` *)
bearer(headers, token) ==
    [headers EXCEPT !.Authorization = [scheme |-> "Bearer", credentials |-> token]]

(* The Error that a rejected promise of jwt() carries.  A failure of the   *)
(* '/token' request is a JSONHTTPError of Transport; the no-token error    *)
(* and the timeout are plain Errors.                                       *)
errorOf(value) ==
    IF value \in TransportErrors
    THEN [name |-> "JSONHTTPError", message |-> <<"Bad Request">>,
          json |-> [error |-> Str(value),
                    error_description |-> Str("Invalid Refresh Token")]]
    ELSE [name |-> "Error", message |-> <<value>>, json |-> Undefined]

(* `${v}` *)
templateText(v) ==
    CASE DOMAIN v = {"s"} -> v.s
      [] v = Null -> "null"
      [] OTHER -> "undefined"

(* The catch-handler of _request, lines 160-169: the error thrown on, its  *)
(* message rewritten                                                       *)
_requestCatch_errorFirst(error) ==
    IF error.name = "JSONHTTPError" /\ Truthy(error.json)
    THEN IF Truthy(property(error.json, "error"))
         THEN [error EXCEPT !.message =
                   <<templateText(property(error.json, "error")), ": ",
                     templateText(property(error.json, "error_description"))>>]
         ELSE IF Truthy(property(error.json, "msg"))
         THEN [error EXCEPT !.message = <<templateText(property(error.json, "msg"))>>]
         ELSE error
    ELSE error

_requestCatch(error) ==
    IF error.name = "JSONHTTPError" /\ Truthy(error.json)
    THEN IF Truthy(property(error.json, "msg"))
         THEN [error EXCEPT !.message = <<templateText(property(error.json, "msg"))>>]
         ELSE IF Truthy(property(error.json, "error"))
         THEN [error EXCEPT !.message =
                   <<templateText(property(error.json, "error")), ": ",
                     templateText(property(error.json, "error_description"))>>]
         ELSE error
    ELSE error

(* What fetch resolves with: status, the header Content-Type, null when    *)
(* there is none, and the text of the body.  A content type is written as  *)
(* the pieces of its text; JSONText(v) is a text that denotes the JSON     *)
(* value v, and any other text denotes none.                               *)
JSONText(v) == [json |-> v]
ContentType(pieces) == [pieces |-> pieces]
Statuses == {200, 204, 299, 300, 404, 500}
ContentTypes ==
    { Null, ContentType(<<"application/", "json">>),
      ContentType(<<"application/problem+", "json", "; charset=utf-8">>),
      ContentType(<<"application/", "JSON">>), ContentType(<<"text/plain">>) }
Bodies == { Str(""), Str("<html>"), JSONText(Null), JSONText([msg |-> Str("User not found")]) }
HTTPResponses == [status : Statuses, contentType : ContentTypes, body : Bodies]

(* response.statusText *)
statusText(response) ==
    CASE response.status = 200 -> "OK"
      [] response.status = 204 -> "No Content"
      [] response.status = 300 -> "Multiple Choices"
      [] response.status = 404 -> "Not Found"
      [] response.status = 500 -> "Internal Server Error"
      [] OTHER -> ""

(* response.ok *)
responseOk(response) == response.status >= 200 /\ response.status <= 299

(* await response.json(): the value the body denotes, or a SyntaxError *)
responseJson(response) ==
    IF DOMAIN response.body = {"json"}
    THEN [throws |-> FALSE, value |-> response.body.json]
    ELSE [throws |-> TRUE, value |-> Undefined]

(* api.ts 1-33: the errors of Transport, and what response.json() throws *)
HTTPErrorOf(name, response, json, data) ==
    [name |-> name, message |-> <<statusText(response)>>, status |-> Num(response.status),
     json |-> json, data |-> data]

BodySyntaxError ==
    [name |-> "SyntaxError", message |-> <<"Unexpected token">>, status |-> Undefined,
     json |-> Undefined, data |-> Undefined]

(* contentType?.includes('json'), api.ts 89 *)
includesJson(contentType) ==
    /\ contentType # Null
    /\ \E i \in DOMAIN contentType.pieces : contentType.pieces[i] = "json"

(* API.parseJsonResponse(response), api.ts 63-69, given what               *)
(* response.json() gave                                                    *)
parseJsonResponse(response, parsed) ==
    IF parsed.throws
    THEN [ok |-> FALSE, value |-> BodySyntaxError]
    ELSE IF ~responseOk(response)
    THEN [ok |-> FALSE,
          value |-> HTTPErrorOf("JSONHTTPError", response, parsed.value, Undefined)]
    ELSE [ok |-> TRUE, value |-> parsed.value]

(* api.request(path, options) once fetch has resolved with response,       *)
(* api.ts 86-98: the promise resolves (ok) or rejects with value           *)
API_request(response) ==
    IF includesJson(response.contentType)
    THEN parseJsonResponse(response, responseJson(response))
    ELSE IF ~responseOk(response)
    THEN [ok |-> FALSE,
          value |-> HTTPErrorOf("TextHTTPError", response, Undefined, response.body)]
    ELSE [ok |-> TRUE, value |-> response.body]

(* The promise of a call settles *)
callSettled(h, o, outcome, error) ==
    [h EXCEPT !.ops[o] = NoOp,
              !.done = @ \cup {[user |-> h.ops[o].user, call |-> h.ops[o].call,
                                outcome |-> outcome, error |-> error]}]

(* The promise of logout() settles *)
logoutSettled(h, o, outcome) ==
    [h EXCEPT !.ops[o] = NoOp,
              !.done = @ \cup {[user |-> h.ops[o].user, outcome |-> outcome]}]

(* logout's then-handler, line 103 *)
logoutThen_tokenOnly(h, o) ==
    logoutSettled([h EXCEPT !.users[h.ops[o].user].token = Null], o, "resolved")

logoutThen(h, o) == logoutSettled(clearSession(h, h.ops[o].user), o, "resolved")

(* logout's catch-handler, line 104 *)
logoutCatch_rethrows(h, o) == logoutSettled(h, o, "rejected")

logoutCatch(h, o) == logoutSettled(clearSession(h, h.ops[o].user), o, "resolved")

(* getUserData and update after _request: _saveUserData(response) and      *)
(* _refreshSavedSession(), lines 86 and 174                                *)
userDataThen(h, o, response) ==
    LET u == h.ops[o].user
        h1 == [h EXCEPT !.users[u] = _saveUserData(@, response, FALSE)]
    IN  _refreshSavedSession(h1, u)

(* createUser's then-handler, index.ts 147-152 *)
createUserThen_always(h, o) == _saveSession(h, h.ops[o].user)

createUserThen(h, o) ==
    IF h.ops[o].remember THEN _saveSession(h, h.ops[o].user) ELSE h

(* validateCurrentSession's catch-handler, index.ts 168-171: the session   *)
(* of the User is cleared and the promise resolves with null               *)
validateCatch_keepsSession(h, o) == callSettled(h, o, "resolved", Null)

validateCatch(h, o) ==
    callSettled(clearSession(h, h.ops[o].user), o, "resolved", Null)

(* Transport answers the request of call o: the reactions of the caller.   *)
(* validateCurrentSession resolves with the User, index.ts 167, written    *)
(* undefined here as for the other calls.                                  *)
requestFulfilled(h, o, response) ==
    CASE h.ops[o].call = "logout" -> logoutThen(h, o)
      [] h.ops[o].call \in {"getUserData", "update", "validateCurrentSession"} ->
             callSettled(userDataThen(h, o, response), o, "resolved", Undefined)
      [] h.ops[o].call = "createUser" ->
             callSettled(createUserThen(userDataThen(h, o, response), o),
                         o, "resolved", Undefined)
      [] OTHER -> callSettled(h, o, "resolved", Undefined)

(* await this.jwt() or the request throws error: the catch-handler of      *)
(* _request, then the reaction of the caller                               *)
requestFailed(h, o, error) ==
    IF h.ops[o].call = "logout"
    THEN logoutCatch(h, o)
    ELSE IF h.ops[o].call = "validateCurrentSession"
    THEN validateCatch(h, o)
    ELSE callSettled(h, o, "rejected", _requestCatch(error))

(* _request after `await this.jwt()`, lines 153-169: with a token the      *)
(* The reactions of the caller of _request to what api.request gave *)
requestGave(h, o, r) ==
    IF r.ok THEN requestFulfilled(h, o, r.value) ELSE requestFailed(h, o, r.value)

(* request goes to Transport; an error is thrown on to the catch-handler.  *)
requestAfterJwt_ownToken(h, o, ok, value) ==
    IF ok
    THEN [h EXCEPT !.ops[o].pc = "request",
                   !.ops[o].promise = NoPromise,
                   !.ops[o].request.headers =
                       bearer(@, IF IsTokenObject(h.users[h.ops[o].user].token)
                                 THEN h.users[h.ops[o].user].token.access_token
                                 ELSE value)]
    ELSE requestFailed(h, o, errorOf(value))

requestAfterJwt(h, o, ok, value) ==
    IF ok
    THEN [h EXCEPT !.ops[o].pc = "request",
                   !.ops[o].promise = NoPromise,
                   !.ops[o].request.headers = bearer(@, value)]
    ELSE requestFailed(h, o, errorOf(value))

(* line 153, `await this.jwt()`, given what jwt() returned: the call      *)
(* waits for the promise of a refresh, or goes on at once                  *)
awaitJwt(o, r) ==
    CASE r.kind = "promise" -> [r.h EXCEPT !.ops[o].promise = r.promise]
      [] r.kind = "resolved" -> requestAfterJwt(r.h, o, TRUE, r.value)
      [] OTHER -> requestAfterJwt(r.h, o, FALSE, r.value)

(* this._request(path, options) of User u at time t, on behalf of call,    *)
(* lines 144-153; o is the call's slot                                     *)
_request(h, o, u, call, path, optionsAudience, remember, t) ==
    awaitJwt(o, jwt([h EXCEPT !.ops[o] =
                        [call |-> call, user |-> u, pc |-> "jwt", promise |-> NoPromise,
                         remember |-> remember,
                         request |-> [path |-> path,
                                      headers |-> audienceHeader(NoHeaders,
                                                      optionsAudience,
                                                      h.users[u].audience)]]],
                    u, FALSE, t))

(* logout() called at time t *)
logout(h, u, t) ==
    _request(h, FreeSlot(h.ops, NoOp), u, "logout", "/logout", Undefined, FALSE, t)

(* getUserData() called at time t *)
getUserData(h, u, t) ==
    _request(h, FreeSlot(h.ops, NoOp), u, "getUserData", "/user", Undefined, FALSE, t)

(* update(attributes) called at time t *)
update(h, u, t) ==
    _request(h, FreeSlot(h.ops, NoOp), u, "update", "/user", Undefined, FALSE, t)

(* The reactions of the callers that await promise p, run when p settles *)
resumeOps_firstOnly(h, p, ok, value, o) ==
    IF \E q \in DOMAIN h.ops : h.ops[q].pc = "jwt" /\ h.ops[q].promise = p
    THEN requestAfterJwt(h, CHOOSE q \in DOMAIN h.ops :
                                h.ops[q].pc = "jwt" /\ h.ops[q].promise = p,
                         ok, value)
    ELSE h

RECURSIVE resumeOps(_, _, _, _, _)
resumeOps(h, p, ok, value, o) ==
    IF o > Len(h.ops)
    THEN h
    ELSE IF h.ops[o].pc = "jwt" /\ h.ops[o].promise = p
    THEN resumeOps(requestAfterJwt(h, o, ok, value), p, ok, value, o + 1)
    ELSE resumeOps(h, p, ok, value, o + 1)

----------------------------------------------------------------------------
(* The facade, index.ts: login(), verify() and the like, createUser() *)

(* The catch-handler of GoTrue._request, index.ts 74-83 *)
GoTrue_requestCatch(error) ==
    IF error.name = "JSONHTTPError" /\ Truthy(error.json)
    THEN IF Truthy(property(error.json, "msg"))
         THEN [error EXCEPT !.message = <<templateText(property(error.json, "msg"))>>]
         ELSE IF Truthy(property(error.json, "error"))
         THEN [error EXCEPT !.message =
                   <<templateText(property(error.json, "error")), ": ",
                     templateText(property(error.json, "error_description"))>>]
         ELSE error
    ELSE error

(* GoTrue._request(path) of a GoTrue object with the given audience, on    *)
(* behalf of call, index.ts 66-73: the request goes to Transport at once   *)
GoTrue_request(h, o, call, path, audience, remember) ==
    [h EXCEPT !.ops[o] =
        [call |-> call, user |-> NoUser, pc |-> "request", promise |-> NoPromise,
         remember |-> remember, audience |-> audience,
         request |-> [path |-> path,
                      headers |-> audienceHeader(NoHeaders, Undefined, audience)]]]

(* _setRememberHeaders(remember), index.ts 182-187 *)
_setRememberHeaders_always(h, remember) ==
    [h EXCEPT !.defaultHeaders =
        [(IF Truthy(@) THEN @ ELSE EmptyHeaders) EXCEPT
            !.X_Use_Cookie = IF Truthy(remember) THEN Str("1") ELSE Str("session")]]

_setRememberHeaders(h, remember) ==
    IF h.setCookie
    THEN [h EXCEPT !.defaultHeaders =
             [(IF Truthy(@) THEN @ ELSE EmptyHeaders) EXCEPT
                 !.X_Use_Cookie = IF Truthy(remember) THEN Str("1") ELSE Str("session")]]
    ELSE h

(* login(email, password, remember), index.ts 97-104 *)
login(h, audience, remember) ==
    GoTrue_request(_setRememberHeaders(h, Bool(remember)), FreeSlot(h.ops, NoOp),
                   "login", "/token", audience, remember)

(* verify(type, token, remember), index.ts 174-179; confirm(), recover()   *)
(* and acceptInvite() send the same request and have the same handler      *)
verify(h, audience, remember) ==
    GoTrue_request(_setRememberHeaders(h, Bool(remember)), FreeSlot(h.ops, NoOp),
                   "verify", "/verify", audience, remember)

(* this.audience || '' *)
audienceOrEmpty(audience) == IF Truthy(audience) THEN audience ELSE Str("")

(* index.ts 147: user.getUserData() on the User just constructed, who is   *)
(* the current one                                                         *)
getUserDataOfNew(h, o, remember, t) ==
    _request(h, o, h.currentUser, "createUser", "/user", Undefined, remember, t)

(* createUser(tokenResponse, remember) at time t, index.ts 144-147: the    *)
(* User is constructed and getUserData() is called on it                   *)
createUser_destroysOld(h, o, tokenResponse, t) ==
    getUserDataOfNew(newUser(_setRememberHeaders(
                                 IF h.currentUser # NoUser
                                 THEN [h EXCEPT !.users[h.currentUser].token = Null]
                                 ELSE h,
                                 Bool(h.ops[o].remember)),
                             TheApi, tokenResponse,
                             audienceOrEmpty(h.ops[o].audience)),
                     o, h.ops[o].remember, t)

createUser(h, o, tokenResponse, t) ==
    getUserDataOfNew(newUser(_setRememberHeaders(h, Bool(h.ops[o].remember)),
                             TheApi, tokenResponse,
                             audienceOrEmpty(h.ops[o].audience)),
                     o, h.ops[o].remember, t)

(* currentUser() of the GoTrue object, index.ts 155-159, given what        *)
(* User.recoverSession(this.api) returned                                  *)
currentUserThen(r) ==
    IF r.value # NoUser
    THEN [r EXCEPT !.h = _setRememberHeaders(@, @.users[r.value]._fromStorage)]
    ELSE r

GoTrue_currentUser(h) == currentUserThen(recoverSession(h, TheApi))

(* validateCurrentSession() at time t, index.ts 161-167, given what        *)
(* currentUser() returned: null is returned at once when there is no User, *)
(* else getUserData() is called on the User                                *)
validateThen(r, t) ==
    IF r.value = NoUser
    THEN [r.h EXCEPT !.done = {[user |-> NoUser, call |-> "validateCurrentSession",
                                outcome |-> "resolved", error |-> Null]}]
    ELSE _request(r.h, FreeSlot(r.h.ops, NoOp), r.value, "validateCurrentSession",
                  "/user", Undefined, FALSE, t)

validateCurrentSession(h, t) == validateThen(GoTrue_currentUser(h), t)

(* The then-handlers of login, index.ts 105-108, and of verify, 179 *)
authThen_keepsSnapshot(h, o, tokenResponse, t) == createUser(h, o, tokenResponse, t)

authThen(h, o, tokenResponse, t) ==
    createUser(IF h.ops[o].call = "login" THEN removeSavedSession(h) ELSE h,
               o, tokenResponse, t)

(* The request of login or verify fails *)
authFailed(h, o, error) == callSettled(h, o, "rejected", GoTrue_requestCatch(error))

(* the jwt() of the current User needs a slot for a new race *)
currentStartsRace(h, t) == jwtStartsRace(h, h.currentUser, FALSE, t)

(* getUserData() of the User that createUser constructs starts a refresh *)
createUserStartsRace(h, tokenResponse, t) ==
    currentStartsRace(newUser(h, TheApi, tokenResponse, Str("")), t)

----------------------------------------------------------------------------
(* Settling a refresh race *)

(* The then-handler of _refreshToken, lines 125-133, and the reactions of  *)
(* the awaiting callers                                                    *)
refreshFulfilled(h, p, response) ==
    LET u == h.races[p].user
        h1 == deleteTicket(h, h.races[p].refresh_token)
        h2 == [h1 EXCEPT !.users[u].token = _processTokenResponse(response),
                         !.log = @ \o _processTokenResponseLog(response)]
        h3 == _refreshSavedSession(h2, u)
        access_token == h3.users[u].token.access_token
    IN  resumeOps([h3 EXCEPT !.races[p].state = "fulfilled", !.value = access_token],
                  p, TRUE, access_token, 1)

(* The catch-handler of _refreshToken, lines 134-138, and the reactions of *)
(* the awaiting callers                                                    *)
refreshRejected_keepsSession(h, p, error) ==
    LET h1 == deleteTicket(h, h.races[p].refresh_token)
    IN  resumeOps([h1 EXCEPT !.races[p].state = "rejected", !.value = error],
                  p, FALSE, error, 1)

refreshRejected(h, p, error) ==
    LET h1 == deleteTicket(h, h.races[p].refresh_token)
        h2 == clearSession(h1, h.races[p].user)
    IN  resumeOps([h2 EXCEPT !.races[p].state = "rejected", !.value = error],
                  p, FALSE, error, 1)

(* Promise.race, line 124: only the first settlement counts *)
raceSettles_everySettlement(h, p, ok, result) ==
    IF ok THEN refreshFulfilled(h, p, result) ELSE refreshRejected(h, p, result)

raceSettles_responseOnly(h, p, ok, result) ==
    IF h.races[p].state # "pending" \/ (~ok /\ result = TimeoutError)
    THEN h
    ELSE IF ok THEN refreshFulfilled(h, p, result) ELSE refreshRejected(h, p, result)

raceSettles(h, p, ok, result) ==
    IF h.races[p].state # "pending"
    THEN h
    ELSE IF ok THEN refreshFulfilled(h, p, result) ELSE refreshRejected(h, p, result)

(* api.request of race p has settled: the race object is garbage *)
requestSettled(h, p) == [h EXCEPT !.races[p] = NoRace]

----------------------------------------------------------------------------
(* The state machine *)

(* The latest event: a call with what it returned, a response of           *)
(* Transport or a timer, with the promise it settled and the value, and    *)
(* the logout() calls that settled in the same task.                       *)
Event(call, u, arg, kind, value, promise, done) ==
    [call |-> call, user |-> u, arg |-> arg, kind |-> kind, value |-> value,
     promise |-> promise, done |-> done]

Init ==
    /\ now = 0
    /\ users = <<>>
    /\ currentUser = NoUser
    /\ localStorage = NoItem
    /\ refreshPromises = [r \in RefreshTokens |-> NoPromise]
    /\ races = [p \in 1..MaxRaces |-> NoRace]
    /\ ops = [o \in 1..MaxOps |-> NoOp]
    /\ console = <<>>
    /\ setCookie = FALSE
    /\ defaultHeaders = ClientHeaders
    /\ last = Event("init", NoUser, FALSE, "", "", NoPromise, {})

(* A task that called a method or handled a response ends: the heap is    *)
(* committed and the event recorded, with the calls that settled in it     *)
Called(h, call, u, arg, kind) ==
    /\ Commit(h)
    /\ last' = Event(call, u, arg, kind, "", NoPromise, h.done)

(* The same for the task in which Transport answers a call; the event      *)
(* tells whether the call is to remember the session                       *)
Answered(h, u, kind, remember) ==
    /\ Commit(h)
    /\ last' = Event("requestResponse", u, TRUE, kind,
                     IF remember THEN "remember" ELSE "", NoPromise, h.done)

(* The same for a task that settles the promise of a refresh race *)
Settled(h, call, u, arg, kind, promise) ==
    /\ Commit(h)
    /\ last' = Event(call, u, arg, kind, h.value, promise, h.done)

(* The same for a call of jwt() or recoverSession() that returned r *)
Returned(r, call, u, arg) ==
    /\ Commit(r.h)
    /\ last' = Event(call, u, arg, r.kind, r.value, r.promise, {})

Recovered(r, arg) ==
    /\ Commit(r.h)
    /\ last' = Event("recoverSession", r.value, arg, r.kind, "", NoPromise, {})

(* The same for the task that constructed a User, who is the current one *)
Created(h, call) ==
    /\ Commit(h)
    /\ last' = Event("authResponse", h.currentUser, TRUE, call, "", NoPromise, h.done)

(* The same, with room for MaxCalls calls under way *)
InitCalls ==
    /\ now = 0
    /\ users = <<>>
    /\ currentUser = NoUser
    /\ localStorage = NoItem
    /\ refreshPromises = [r \in RefreshTokens |-> NoPromise]
    /\ races = [p \in 1..MaxRaces |-> NoRace]
    /\ ops = [o \in 1..MaxCalls |-> NoOp]
    /\ console = <<>>
    /\ setCookie = FALSE
    /\ defaultHeaders = ClientHeaders
    /\ last = Event("init", NoUser, FALSE, "", "", NoPromise, {})

(* Time passes *)
Tick ==
    /\ \E t \in Instants : t > now /\ now' = t
    /\ last' = Event("tick", NoUser, FALSE, "", "", NoPromise, {})
    /\ console' = <<>>
    /\ UNCHANGED <<users, currentUser, localStorage, refreshPromises, races, ops,
                   setCookie, defaultHeaders>>

(* new User(api, tokenResponse, audience) *)
NewUser ==
    /\ Len(users) < MaxUsers
    /\ \E tokenResponse \in TokenResponses, audience \in Audiences :
           Commit(newUser(Heap, TheApi, tokenResponse, Str(audience)))
    /\ last' = Event("new", Len(users) + 1, FALSE, "", "", NoPromise, {})
    /\ UNCHANGED now

(* The model has a slot for the race that jwt() would start *)
JwtEnabled(u, forceRefresh) ==
    jwtStartsRace(Heap, u, forceRefresh, now) => HasFree(races, NoRace)

(* user.jwt(forceRefresh) *)
Jwt ==
    \E u \in UserIds, forceRefresh \in BOOLEAN :
        /\ JwtEnabled(u, forceRefresh)
        /\ Returned(jwt(Heap, u, forceRefresh, now), "jwt", u, forceRefresh)
        /\ UNCHANGED now

(* user.jwt() *)
JwtIfStale ==
    \E u \in UserIds :
        /\ JwtEnabled(u, FALSE)
        /\ Returned(jwt(Heap, u, FALSE, now), "jwt", u, FALSE)
        /\ UNCHANGED now

(* user.logout() *)
Logout ==
    \E u \in UserIds :
        /\ HasFree(ops, NoOp)
        /\ JwtEnabled(u, FALSE)
        /\ Called(logout(Heap, u, now), "logout", u, FALSE, "")
        /\ UNCHANGED now

(* Transport answers the request of a refresh race with a token response *)
RefreshResponse ==
    \E p \in 1..MaxRaces, response \in TokenResponses :
        /\ races[p] # NoRace
        /\ Settled(requestSettled(raceSettles(Heap, p, TRUE, response), p),
                   "response", races[p].user, TRUE,
                   IF races[p].state = "pending" THEN "fulfilled" ELSE "late", p)
        /\ UNCHANGED now

(* Transport fails the request of a refresh race *)
RefreshError ==
    \E p \in 1..MaxRaces, error \in TransportErrors :
        /\ races[p] # NoRace
        /\ Settled(requestSettled(raceSettles(Heap, p, FALSE, error), p),
                   "response", races[p].user, FALSE,
                   IF races[p].state = "pending" THEN "rejected" ELSE "late", p)
        /\ UNCHANGED now

(* The timer of a refresh race fires, RefreshTimeout ms after its start;   *)
(* the request stays in flight.  A timer that fires after its race has     *)
(* settled changes nothing.                                                *)
RefreshTimer ==
    \E p \in 1..MaxRaces :
        /\ races[p] # NoRace
        /\ races[p].state = "pending"
        /\ now >= races[p].deadline
        /\ Settled(raceSettles(Heap, p, FALSE, TimeoutError),
                   "timer", races[p].user, FALSE, "rejected", p)
        /\ UNCHANGED now

(* Transport answers or fails a '/logout' request *)
LogoutResponse ==
    \E o \in DOMAIN ops, ok \in BOOLEAN :
        /\ ops[o].pc = "request"
        /\ ops[o].call = "logout"
        /\ Called(IF ok THEN logoutThen(Heap, o) ELSE logoutCatch(Heap, o),
                  "logoutResponse", ops[o].user, ok, "")
        /\ UNCHANGED now

(* user.clearSession() *)
ClearSession ==
    \E u \in UserIds :
        /\ Commit(clearSession(Heap, u))
        /\ last' = Event("clearSession", u, FALSE, "", "", NoPromise, {})
        /\ UNCHANGED now

(* user._saveSession() *)
SaveSession ==
    \E u \in UserIds :
        /\ Commit(_saveSession(Heap, u))
        /\ last' = Event("_saveSession", u, FALSE, "", "", NoPromise, {})
        /\ UNCHANGED now

(* user._saveUserData(attributes); the event tells whether the map had    *)
(* one of the keys api, token, audience, url                               *)
SaveUserData ==
    \E u \in UserIds, attributes \in AttributeMaps :
        /\ Commit([Heap EXCEPT !.users[u] = _saveUserData(@, attributes, FALSE)])
        /\ last' = Event("_saveUserData", u,
                         DOMAIN attributes \cap {"api", "token", "audience", "url"} # {},
                         "", "", NoPromise, {})
        /\ UNCHANGED now

(* User.recoverSession(apiInstance) *)
RecoverSession ==
    \E apiInstance \in {Undefined, TheApi} :
        /\ recoverConstructs(Heap) => Len(users) < MaxUsers
        /\ Recovered(recoverSession(Heap, apiInstance), apiInstance # Undefined)
        /\ UNCHANGED now

(* An API object of another origin than the one the sessions were made at *)
OtherApi == [apiURL |-> "https://other.example"]

(* User.recoverSession(apiInstance) with that API object *)
RecoverSessionOther ==
    /\ recoverConstructs(Heap) => Len(users) < MaxUsers
    /\ Recovered(recoverSession(Heap, OtherApi), TRUE)
    /\ UNCHANGED now

(* The page is loaded anew: the module is evaluated again, lines 14-15,    *)
(* and the objects of the page before are gone; localStorage stays.  The   *)
(* page constructs its GoTrue object with the same options.                *)
Reload ==
    /\ users' = <<>>
    /\ currentUser' = NoUser
    /\ refreshPromises' = [r \in RefreshTokens |-> NoPromise]
    /\ races' = [p \in 1..MaxRaces |-> NoRace]
    /\ ops' = [o \in DOMAIN ops |-> NoOp]
    /\ console' = <<>>
    /\ defaultHeaders' = ClientHeaders
    /\ last' = Event("reload", NoUser, FALSE, "", "", NoPromise, {})
    /\ UNCHANGED <<now, localStorage, setCookie>>

(* Another script of the origin sets the item 'gotrue.user' *)
StorageSet ==
    /\ \E text \in StoredTexts : localStorage' = text
    /\ console' = <<>>
    /\ last' = Event("setItem", NoUser, FALSE, "", "", NoPromise, {})
    /\ UNCHANGED <<now, users, currentUser, refreshPromises, races, ops,
                   setCookie, defaultHeaders>>

(* auth.login(email, password, remember) on a GoTrue object with the       *)
(* given audience                                                          *)
Login(audience, remember) ==
    /\ HasFree(ops, NoOp)
    /\ Commit(login(Heap, audience, remember))
    /\ last' = Event("login", NoUser, remember, "", "", NoPromise, {})
    /\ UNCHANGED now

(* auth.verify(type, token, remember), confirm, recover or acceptInvite *)
Verify(audience, remember) ==
    /\ HasFree(ops, NoOp)
    /\ Commit(verify(Heap, audience, remember))
    /\ last' = Event("verify", NoUser, remember, "", "", NoPromise, {})
    /\ UNCHANGED now

(* Transport answers '/token' of login or '/verify' with a token response *)
AuthResponse ==
    \E o \in DOMAIN ops, tokenResponse \in TokenResponses :
        /\ ops[o].pc = "request"
        /\ ops[o].call \in {"login", "verify"}
        /\ Len(users) < MaxUsers
        /\ createUserStartsRace(Heap, tokenResponse, now) => HasFree(races, NoRace)
        /\ Created(authThen(Heap, o, tokenResponse, now), ops[o].call)
        /\ UNCHANGED now

(* Transport fails '/token' of login or '/verify' with one of errors *)
AuthError(errors) ==
    \E o \in DOMAIN ops, error \in errors :
        /\ ops[o].pc = "request"
        /\ ops[o].call \in {"login", "verify"}
        /\ Called(authFailed(Heap, o, error), "authResponse", NoUser, FALSE,
                  ops[o].call)
        /\ UNCHANGED now

(* user.getUserData() *)
GetUserData ==
    \E u \in UserIds :
        /\ HasFree(ops, NoOp)
        /\ JwtEnabled(u, FALSE)
        /\ Called(getUserData(Heap, u, now), "getUserData", u, FALSE, "")
        /\ UNCHANGED now

(* user.update(attributes) *)
Update ==
    \E u \in UserIds :
        /\ HasFree(ops, NoOp)
        /\ JwtEnabled(u, FALSE)
        /\ Called(update(Heap, u, now), "update", u, FALSE, "")
        /\ UNCHANGED now

(* user._request(path, {audience}), as the methods of user.admin call it *)
Request ==
    \E u \in UserIds, audience \in RequestAudiences :
        /\ HasFree(ops, NoOp)
        /\ JwtEnabled(u, FALSE)
        /\ Called(_request(Heap, FreeSlot(ops, NoOp), u, "_request", "/admin/users",
                           audience, FALSE, now),
                  "_request", u, Truthy(audience), "")
        /\ UNCHANGED now

(* Transport answers the request of a call of _request other than logout *)
RequestResponse ==
    \E o \in DOMAIN ops, response \in UserDatas :
        /\ ops[o].pc = "request"
        /\ ops[o].call \in {"getUserData", "update", "createUser", "_request",
                            "validateCurrentSession"}
        /\ Answered(requestFulfilled(Heap, o, response), ops[o].user, ops[o].call,
                    ops[o].remember)
        /\ UNCHANGED now

(* Transport fails the request of a call of _request other than logout,   *)
(* with one of errors                                                      *)
RequestError(errors) ==
    \E o \in DOMAIN ops, error \in errors :
        /\ ops[o].pc = "request"
        /\ ops[o].call \in {"getUserData", "update", "createUser", "_request",
                            "validateCurrentSession"}
        /\ Called(requestFailed(Heap, o, error),
                  "requestResponse", ops[o].user, FALSE, ops[o].call)
        /\ UNCHANGED now

(* fetch resolves with a response to the request of a call of _request    *)
(* that hands on what api.request gives                                    *)
FetchResponse ==
    \E o \in DOMAIN ops, response \in HTTPResponses :
        /\ ops[o].pc = "request"
        /\ ops[o].call = "_request"
        /\ Commit(requestGave(Heap, o, API_request(response)))
        /\ last' = Event("fetchResponse", ops[o].user, API_request(response).ok,
                         response, API_request(response).value, NoPromise,
                         requestGave(Heap, o, API_request(response)).done)
        /\ UNCHANGED now

(* The model's clock reaches the deadline of a race that starts now *)
TimerFits == \E t \in Instants : t >= now + RefreshTimeout

(* user.jwt(forceRefresh), called while the clock reaches the deadline of  *)
(* the race it starts                                                      *)
JwtInTime ==
    \E u \in UserIds, forceRefresh \in BOOLEAN :
        /\ JwtEnabled(u, forceRefresh)
        /\ jwtStartsRace(Heap, u, forceRefresh, now) => TimerFits
        /\ Returned(jwt(Heap, u, forceRefresh, now), "jwt", u, forceRefresh)
        /\ UNCHANGED now

(* user.logout(), called likewise *)
LogoutInTime ==
    \E u \in UserIds :
        /\ HasFree(ops, NoOp)
        /\ JwtEnabled(u, FALSE)
        /\ jwtStartsRace(Heap, u, FALSE, now) => TimerFits
        /\ Called(logout(Heap, u, now), "logout", u, FALSE, "")
        /\ UNCHANGED now

(* new User(api, tokenResponse, '') with any token response *)
NewUserAny ==
    /\ Len(users) < MaxUsers
    /\ \E tokenResponse \in AnyTokenResponses :
           Commit(newUser(Heap, TheApi, tokenResponse, Str("")))
    /\ last' = Event("new", Len(users) + 1, FALSE, "", "", NoPromise, {})
    /\ UNCHANGED now

(* Transport answers the request of a refresh race with any token response *)
RefreshResponseAny ==
    \E p \in 1..MaxRaces, response \in AnyTokenResponses :
        /\ races[p] # NoRace
        /\ Settled(requestSettled(raceSettles(Heap, p, TRUE, response), p),
                   "response", races[p].user, TRUE,
                   IF races[p].state = "pending" THEN "fulfilled" ELSE "late", p)
        /\ UNCHANGED now

Next ==
    \/ Tick
    \/ NewUser
    \/ Jwt
    \/ Logout
    \/ RefreshResponse
    \/ RefreshError
    \/ RefreshTimer
    \/ LogoutResponse
    \/ ClearSession
    \/ SaveSession

(* The token lifecycle: construction, jwt(), refresh, logout() *)
Spec == Init /\ [][Next]_vars

(* Attribute merging and persistence *)
NextAttrs ==
    \/ NewUser
    \/ SaveUserData
    \/ SaveSession
    \/ ClearSession

SpecAttrs == Init /\ [][NextAttrs]_vars

(* Sessions: saving, reloading and recovering *)
NextSession ==
    \/ NewUser
    \/ SaveUserData
    \/ SaveSession
    \/ ClearSession
    \/ RecoverSession
    \/ Reload
    \/ StorageSet

SpecSession == Init /\ [][NextSession]_vars

(* An application that never asks to be remembered: the calls of the      *)
(* facade with remember = false, on a GoTrue object without audience, and  *)
(* the methods of User, without calls of _saveSession of its own.  A       *)
(* refresh starts when a token has gone stale.                             *)
NextUnremembered ==
    \/ Tick
    \/ Login(Undefined, FALSE)
    \/ Verify(Undefined, FALSE)
    \/ AuthResponse
    \/ AuthError({JSONHTTPError(Null)})
    \/ JwtIfStale
    \/ RefreshResponse
    \/ RefreshError
    \/ GetUserData
    \/ Update
    \/ RequestResponse
    \/ RequestError({JSONHTTPError(Null)})
    \/ RecoverSession
    \/ Logout
    \/ LogoutResponse

SpecUnremembered == Init /\ [][NextUnremembered]_vars

(* Requests: the calls of _request of the facade and of User, with every   *)
(* audience and every failure of Transport                                 *)
NextRequest ==
    \/ Tick
    \/ \E audience \in GoTrueAudiences : Login(audience, FALSE)
    \/ AuthResponse
    \/ AuthError(HTTPErrors)
    \/ Request
    \/ RequestResponse
    \/ RequestError(HTTPErrors)
    \/ RefreshResponse
    \/ RefreshError

SpecRequest == Init /\ [][NextRequest]_vars

(* The token codec: every operation that derives expires_at, construction, *)
(* refresh and recovery, with access tokens of every shape                 *)
NextCodec ==
    \/ NewUserAny
    \/ Jwt
    \/ RefreshResponseAny
    \/ SaveSession
    \/ Reload
    \/ RecoverSession

SpecCodec == Init /\ [][NextCodec]_vars

(* The values the optional parameter remember takes *)
RememberArgs == {Undefined, Bool(TRUE), Bool(FALSE)}

(* The same as InitCalls, for a GoTrue object constructed with either      *)
(* value of the option setCookie, index.ts 62                              *)
InitCookie ==
    /\ now = 0
    /\ users = <<>>
    /\ currentUser = NoUser
    /\ localStorage = NoItem
    /\ refreshPromises = [r \in RefreshTokens |-> NoPromise]
    /\ races = [p \in 1..MaxRaces |-> NoRace]
    /\ ops = [o \in 1..MaxCalls |-> NoOp]
    /\ console = <<>>
    /\ setCookie \in BOOLEAN
    /\ defaultHeaders = ClientHeaders
    /\ last = Event("init", NoUser, FALSE, "", "", NoPromise, {})

(* auth._setRememberHeaders(remember) *)
SetRememberHeaders ==
    \E remember \in RememberArgs :
        /\ Called(_setRememberHeaders(Heap, remember), "_setRememberHeaders", NoUser,
                  Truthy(remember), "")
        /\ UNCHANGED now

(* auth.currentUser() *)
CurrentUser ==
    /\ recoverConstructs(Heap) => Len(users) < MaxUsers
    /\ Called(GoTrue_currentUser(Heap).h, "currentUser",
              GoTrue_currentUser(Heap).value, TRUE, GoTrue_currentUser(Heap).kind)
    /\ UNCHANGED now

(* Cookie mode: the calls of the GoTrue object that set the remember       *)
(* header, with cookie mode enabled and disabled                           *)
NextCookie ==
    \/ SetRememberHeaders
    \/ CurrentUser
    \/ \E remember \in BOOLEAN : Login(Undefined, remember)
    \/ \E remember \in BOOLEAN : Verify(Undefined, remember)
    \/ AuthResponse
    \/ AuthError({JSONHTTPError(Null)})
    \/ RequestResponse
    \/ RequestError({JSONHTTPError(Null)})
    \/ Reload

SpecCookie == InitCookie /\ [][NextCookie]_vars

(* Transport: calls of _request, and every response and failure of fetch *)
NextTransport ==
    \/ NewUser
    \/ Request
    \/ FetchResponse
    \/ RequestError({[name |-> "TypeError", message |-> <<"Failed to fetch">>,
                      json |-> Undefined]})
    \/ Reload

SpecTransport == Init /\ [][NextTransport]_vars

(* The token lifecycle with its timers.  The event loop runs a timer that  *)
(* is due, so time passes and the timer of a race fires; nothing makes     *)
(* Transport answer a request.                                             *)
NextTimers ==
    \/ Tick
    \/ NewUser
    \/ JwtInTime
    \/ LogoutInTime
    \/ RefreshResponse
    \/ RefreshError
    \/ RefreshTimer
    \/ LogoutResponse

SpecTimers ==
    /\ Init
    /\ [][NextTimers]_vars
    /\ WF_vars(Tick)
    /\ WF_vars(RefreshTimer)

(* Callers of a refresh ticket that fails: jwt() and getUserData() of the  *)
(* Principals, several under way at a time, a Transport that fails every   *)
(* request or leaves it unanswered, and the timer                          *)
NextWaiters ==
    \/ Tick
    \/ NewUser
    \/ Jwt
    \/ GetUserData
    \/ RefreshError
    \/ RefreshTimer
    \/ RequestError({JSONHTTPError(Null)})

SpecWaiters == InitCalls /\ [][NextWaiters]_vars

(* Recovery with the API object of the session, with another, and with     *)
(* none                                                                    *)
NextRecover ==
    \/ NewUser
    \/ SaveSession
    \/ Reload
    \/ RecoverSession
    \/ RecoverSessionOther

SpecRecover == Init /\ [][NextRecover]_vars

(* Authentication calls side by side: login() and verify() with either    *)
(* value of remember, their responses in any order, the refresh of a      *)
(* token that has gone stale, and reloads of the page                      *)
NextAuth ==
    \/ \E remember \in BOOLEAN : Login(Undefined, remember)
    \/ \E remember \in BOOLEAN : Verify(Undefined, remember)
    \/ AuthResponse
    \/ AuthError({JSONHTTPError(Null)})
    \/ RequestResponse
    \/ RequestError({JSONHTTPError(Null)})
    \/ Tick
    \/ RefreshResponse
    \/ RefreshError
    \/ Reload

SpecAuth == InitCalls /\ [][NextAuth]_vars

(* The same with login() as the only authentication call *)
NextLogin ==
    \/ \E remember \in BOOLEAN : Login(Undefined, remember)
    \/ AuthResponse
    \/ AuthError({JSONHTTPError(Null)})
    \/ RequestResponse
    \/ RequestError({JSONHTTPError(Null)})
    \/ Tick
    \/ RefreshResponse
    \/ RefreshError
    \/ Reload

SpecLogin == InitCalls /\ [][NextLogin]_vars

----------------------------------------------------------------------------
(* Vocabulary of the claims *)

RaceIds == 1..MaxRaces
Pending(p) == races[p] # NoRace /\ races[p].state = "pending"
TimedOut(p) == races[p] # NoRace /\ races[p].state = "rejected"
Holds(u) == IsTokenObject(users[u].token)

(* The requests that Transport has received and not yet settled *)
InFlight(h) ==
    {<<"race", p, h.races[p].request>> : p \in {q \in RaceIds : h.races[q] # NoRace}}
        \cup {<<"call", o, h.ops[o].request>> :
                  o \in {q \in DOMAIN h.ops : h.ops[q].pc = "request"}}

(* ms from now until the token of u expires, for a numeric expires_at *)
Remaining(u) == users[u].token.expires_at.n - now

SessionCleared(h, u) ==
    /\ h.users[u].token = Null
    /\ h.localStorage = NoItem
    /\ h.currentUser = NoUser

(* The expiry instant in the payload of the access tokens of the model *)
ExpOf(access_token) ==
    CASE access_token = "h.exp60.s" -> Num(60000)
      [] access_token = "h.exp90.s" -> Num(90000)
      [] OTHER -> Undefined

----------------------------------------------------------------------------
(* C1: single-flight refresh.  While a refresh race started by a Principal *)
(* is unsettled, every further jwt() of that Principal that enters the     *)
(* refresh protocol returns the promise of that race and sends nothing to  *)
(* Transport; there is never more than one unsettled race for one          *)
(* refresh-token value; and the value the promise fulfils with, which all  *)
(* its callers receive, is the new access token of the Principal.          *)
C1_SingleFlight ==
    /\ \A p, q \in RaceIds :
          Pending(p) /\ Pending(q) /\ p # q
              => /\ races[p].refresh_token # races[q].refresh_token
                 /\ races[p].user # races[q].user
    /\ \A p \in RaceIds, forceRefresh \in BOOLEAN :
          Pending(p) /\ JwtEnabled(races[p].user, forceRefresh)
              => LET r == jwt(Heap, races[p].user, forceRefresh, now)
                 IN  /\ InFlight(r.h) = InFlight(Heap)
                     /\ r.h.races = races
                     /\ r.kind = "promise" => r.promise = p
    /\ (last.call = "jwt" /\ last.kind = "promise")
          => /\ Pending(last.promise)
             /\ Holds(last.user)
             /\ races[last.promise].refresh_token = users[last.user].token.refresh_token
    /\ (last.call = "response" /\ last.kind = "fulfilled")
          => /\ Holds(last.user)
             /\ last.value = users[last.user].token.access_token

(* Witness of C1: a second jwt() on a stale or force-refreshed token was   *)
(* handed the promise of the race that the first one started.              *)
C1_Witness ==
    /\ last.call = "jwt"
    /\ last.kind = "promise"
    /\ last.value = "existing"
    /\ Pending(last.promise)
    /\ races[last.promise].user = last.user
    /\ Cardinality(InFlight(Heap)) = 1

(* C2: jwt() without forceRefresh on a token that expires more than        *)
(* ExpiryMargin ms from now returns the held access_token and changes      *)
(* nothing: no request, no ticket, same token, snapshot and currentUser.   *)
C2_ValidTokenReturned ==
    \A u \in UserIds :
        (Holds(u) /\ IsNum(users[u].token.expires_at) /\ Remaining(u) > ExpiryMargin)
            => /\ JwtEnabled(u, FALSE)
               /\ jwt(Heap, u, FALSE, now) =
                      [h |-> Heap, kind |-> "resolved",
                       value |-> users[u].token.access_token, promise |-> NoPromise]

C2_Witness ==
    /\ last.call = "jwt"
    /\ last.arg = FALSE
    /\ last.kind = "resolved"
    /\ Holds(last.user)
    /\ IsNum(users[last.user].token.expires_at)
    /\ Remaining(last.user) > ExpiryMargin
    /\ last.value = users[last.user].token.access_token

C4_NoTokenRejects ==
    \A u \in UserIds, forceRefresh \in BOOLEAN :
        users[u].token = Null
            => /\ JwtEnabled(u, forceRefresh)
               /\ jwt(Heap, u, forceRefresh, now) =
                      [h |-> Heap, kind |-> "rejected", value |-> NoTokenError,
                       promise |-> NoPromise]

C4_Witness ==
    /\ last.call = "jwt"
    /\ last.arg = TRUE
    /\ last.kind = "rejected"
    /\ last.value = NoTokenError
    /\ users[last.user].token = Null
    /\ \E p \in RaceIds : Pending(p)

C6_RefreshFailure ==
    /\ \A p \in RaceIds, error \in TransportErrors \cup {TimeoutError} :
          Pending(p)
              => LET h == raceSettles(Heap, p, FALSE, error)
                 IN  /\ SessionCleared(h, races[p].user)
                     /\ h.refreshPromises[races[p].refresh_token] = NoPromise
                     /\ h.value = error
    /\ (last.call \in {"response", "timer"} /\ last.kind = "rejected")
          => /\ SessionCleared(Heap, last.user)
             /\ \A k \in RefreshTokens : refreshPromises[k] # last.promise

C6_Witness ==
    /\ last.call = "response"
    /\ last.kind = "rejected"
    /\ last.value \in TransportErrors
    /\ SessionCleared(Heap, last.user)
    /\ Len(users) = 2

(* C7: when the timer fires first, the ticket fails with the timeout error *)
(* and the session is cleared, while the request stays in flight; a        *)
(* response or failure of that request that arrives afterwards changes     *)
(* nothing, and the token of the Principal is still null then.             *)
C7_TimeoutThenLateResponse ==
    /\ \A p \in RaceIds :
          (Pending(p) /\ now >= races[p].deadline)
              => LET h == raceSettles(Heap, p, FALSE, TimeoutError)
                 IN  /\ SessionCleared(h, races[p].user)
                     /\ h.value = TimeoutError
                     /\ <<"race", p, races[p].request>> \in InFlight(h)
    /\ \A p \in RaceIds :
          TimedOut(p)
              => /\ \A response \in TokenResponses :
                        raceSettles(Heap, p, TRUE, response) = Heap
                 /\ \A error \in TransportErrors :
                        raceSettles(Heap, p, FALSE, error) = Heap
                 /\ users[races[p].user].token = Null
    /\ last.call = "timer"
          => /\ TimedOut(last.promise)
             /\ last.value = TimeoutError
             /\ SessionCleared(Heap, last.user)
    /\ (last.call = "response" /\ last.kind = "late")
          => users[last.user].token = Null

(* Witness of C7: a token response arrived after the timeout of its race *)
C7_Witness ==
    /\ last.call = "response"
    /\ last.kind = "late"
    /\ last.arg = TRUE
    /\ users[last.user].token = Null

(* C8: the registry maps a refresh-token value to a promise exactly while  *)
(* the race of that promise is unsettled, and a jwt() that finds no entry  *)
(* for its refresh-token value starts a new race with a new request.       *)
C8_RegistryHoldsUnsettledOnly ==
    /\ \A k \in RefreshTokens :
          refreshPromises[k] # NoPromise
              => /\ Pending(refreshPromises[k])
                 /\ races[refreshPromises[k]].refresh_token = k
    /\ \A p \in RaceIds : Pending(p) => refreshPromises[races[p].refresh_token] = p
    /\ (\A p \in RaceIds : ~Pending(p)) => \A k \in RefreshTokens : refreshPromises[k] = NoPromise
    /\ \A u \in UserIds, forceRefresh \in BOOLEAN :
          (Holds(u) /\ JwtEnabled(u, forceRefresh))
              => LET r == jwt(Heap, u, forceRefresh, now)
                     k == users[u].token.refresh_token
                 IN  (r.kind = "promise" /\ refreshPromises[k] = NoPromise)
                        => /\ races[r.promise] = NoRace
                           /\ r.h.races[r.promise].state = "pending"
                           /\ <<"race", r.promise,
                                [path |-> "/token", body |-> <<"refresh_token", k>>]>>
                                  \in InFlight(r.h) \ InFlight(Heap)

(* Witness of C8: a race was started for a refresh-token value of which    *)
(* an earlier race has already settled.                                    *)
C8_Witness ==
    /\ last.call = "jwt"
    /\ last.kind = "promise"
    /\ last.value = "new"
    /\ \E q \in RaceIds :
          /\ TimedOut(q)
          /\ races[q].refresh_token = races[last.promise].refresh_token

(* C9: _saveUserData leaves api, token, audience and url of the Principal  *)
(* as they were, for every attribute map.                                  *)
C9_ProtectedAttributes ==
    /\ \A u \in UserIds, attributes \in AttributeMaps, fromStorage \in BOOLEAN :
          LET this == _saveUserData(users[u], attributes, fromStorage)
          IN  \A k \in {"api", "token", "audience", "url"} : this[k] = users[u][k]
    /\ \A u \in UserIds :
          /\ users[u].api = TheApi
          /\ users[u].url = Str(TheApi.apiURL)
          /\ users[u].audience \in {Str(a) : a \in Audiences}
          /\ users[u].token = Null \/ Holds(u)

(* Witness of C9: _saveUserData was handed a map with one of the keys     *)
(* api, token, audience, url, and the Principal still holds its token.     *)
C9_Witness ==
    /\ last.call = "_saveUserData"
    /\ last.arg = TRUE
    /\ Holds(last.user)

(* C10: a logout() that settles has resolved, and the session is cleared   *)
(* then, whether '/logout' succeeded or failed.                            *)
C10_LogoutClears ==
    /\ \A d \in last.done : d.outcome = "resolved" /\ SessionCleared(Heap, d.user)
    /\ \A o \in 1..MaxOps :
          ops[o].pc = "request"
              => \A h \in {logoutThen(Heap, o), logoutCatch(Heap, o)} :
                    /\ SessionCleared(h, ops[o].user)
                    /\ h.done = {[user |-> ops[o].user, outcome |-> "resolved"]}

(* Witness of C10: '/logout' failed and logout() resolved *)
C10_Witness ==
    /\ last.call = "logoutResponse"
    /\ last.arg = FALSE
    /\ last.done = {[user |-> last.user, outcome |-> "resolved"]}

----------------------------------------------------------------------------
(* Vocabulary of the claims about recoverSession() *)

ApiInstances == {Undefined, TheApi}

(* The stored text has no member key, or the member is null.  This is so   *)
(* too when nothing is stored and when the text is not a JSON object.      *)
StoredLacks(key) == key \notin DOMAIN localStorage \/ localStorage[key] = Null

NoSnapshot == localStorage = NoItem
Unparsable == DOMAIN localStorage = {"s"}

(* The attributes of a Principal: the properties that are neither          *)
(* protected, nor the marker of recovery, nor names of the prototype       *)
AttributeNames ==
    {k \in PropNames :
        k \notin {"api", "url", "audience", "token", "_fromStorage"} /\ ~InUserPrototype(k)}

(* C11: recoverSession() with a current principal returns that Principal   *)
(* and changes nothing: no Principal is constructed, nothing is stored or  *)
(* logged, token and attributes stay; a second call returns the same.      *)
C11_RecoverReturnsCurrent ==
    /\ \A apiInstance \in ApiInstances :
          currentUser # NoUser
              => LET r == recoverSession(Heap, apiInstance)
                 IN  /\ r.value = currentUser
                     /\ r.h = Heap
                     /\ recoverSession(r.h, apiInstance).value = currentUser
    /\ (last.call = "recoverSession" /\ last.kind = "current")
          => /\ currentUser = last.user
             /\ console = <<>>

(* Witness of C11: recoverSession() returned the current principal while a *)
(* snapshot of a token other than the one it holds was stored.             *)
C11_Witness ==
    /\ last.call = "recoverSession"
    /\ last.kind = "current"
    /\ currentUser = last.user
    /\ Holds(last.user)
    /\ ~StoredLacks("token")
    /\ localStorage.token.access_token # users[last.user].token.access_token

(* C12: with no current principal, recoverSession() returns null, throws   *)
(* nothing and leaves currentUser unset when nothing is stored, when the   *)
(* stored text does not parse, and when the snapshot lacks url or token;   *)
(* no Principal is constructed and the storage stays as it was.            *)
C12_RecoverNothing ==
    /\ \A apiInstance \in ApiInstances :
          (currentUser = NoUser
              /\ (NoSnapshot \/ Unparsable \/ StoredLacks("url") \/ StoredLacks("token")))
              => LET r == recoverSession(Heap, apiInstance)
                 IN  /\ r.value = NoUser
                     /\ r.kind \in {"absent", "unparsable", "incomplete"}
                     /\ r.h.currentUser = NoUser
                     /\ r.h.users = users
                     /\ r.h.localStorage = localStorage
    /\ (last.call = "recoverSession"
            /\ (NoSnapshot \/ Unparsable \/ StoredLacks("url") \/ StoredLacks("token")))
          => /\ last.kind \in {"current", "absent", "unparsable", "incomplete"}
             /\ last.kind # "current" => last.user = NoUser /\ currentUser = NoUser

(* Witness of C12: recoverSession() met a text that is not JSON, logged    *)
(* one error and returned null.                                            *)
C12_Witness ==
    /\ last.call = "recoverSession"
    /\ last.kind = "unparsable"
    /\ last.user = NoUser
    /\ currentUser = NoUser
    /\ Unparsable
    /\ Len(console) = 1

(* C13: save and recover.  When the session of a Principal that holds a    *)
(* token is saved and currentUser and the registry are reset, storage      *)
(* kept, recoverSession() returns a new Principal that is the current one, *)
(* holds the stored token and audience and every stored attribute, and is  *)
(* marked as recovered from storage.                                       *)
C13_SaveRecoverRoundTrip ==
    /\ \A u \in UserIds, apiInstance \in ApiInstances :
          Holds(u)
              => LET saved == _saveSession(Heap, u)
                     reset == [saved EXCEPT !.currentUser = NoUser,
                                            !.refreshPromises =
                                                [k \in RefreshTokens |-> NoPromise]]
                     r == recoverSession(reset, apiInstance)
                     this == r.h.users[r.value]
                 IN  /\ r.kind = "recovered"
                     /\ r.value = Len(users) + 1
                     /\ r.h.currentUser = r.value
                     /\ this.token = users[u].token
                     /\ this.audience = users[u].audience
                     /\ \A k \in AttributeNames : this[k] = users[u][k]
                     /\ this._fromStorage = Bool(TRUE)
                     /\ r.h.localStorage = saved.localStorage
    /\ (last.call = "recoverSession" /\ last.kind = "recovered")
          => /\ currentUser = last.user
             /\ users[last.user]._fromStorage = Bool(TRUE)
             /\ users[last.user].token.access_token = localStorage.token.access_token
             /\ users[last.user].token.refresh_token = localStorage.token.refresh_token
             /\ users[last.user].audience = property(localStorage, "audience")
             /\ \A k \in AttributeNames :
                    users[last.user][k] = property(localStorage, k)

(* Witness of C13: after a reload, recoverSession() returned a Principal   *)
(* with the token and the email of the snapshot.                           *)
C13_Witness ==
    /\ last.call = "recoverSession"
    /\ last.kind = "recovered"
    /\ Len(users) = 1
    /\ currentUser = 1
    /\ users[1].email = Str("v1")
    /\ users[1]._fromStorage = Bool(TRUE)
    /\ Holds(1)
    /\ users[1].token.access_token = localStorage.token.access_token

----------------------------------------------------------------------------
----------------------------------------------------------------------------
(* The access tokens whose payload decodes to a JSON object with a numeric *)
(* exp claim, and the claim, in seconds                                    *)
HasNumericExp(access_token) == access_token \in {"h.exp60.s", "h.exp90.s"}
ExpSeconds(access_token) == IF access_token = "h.exp60.s" THEN 60 ELSE 90

(* C15: for every access token whose payload decodes to a JSON object with *)
(* a numeric exp claim, _processTokenResponse sets expires_at to exactly   *)
(* exp * 1000, whatever the response carried, and so every token held      *)
(* after construction, refresh or recovery has that expires_at.            *)
C15_ExpiryFromClaims ==
    /\ \A tokenResponse \in AnyTokenResponses :
          HasNumericExp(tokenResponse.access_token)
              => /\ _processTokenResponse(tokenResponse).expires_at =
                        Num(ExpSeconds(tokenResponse.access_token) * 1000)
                 /\ _processTokenResponseLog(tokenResponse) = <<>>
    /\ \A u \in UserIds :
          (Holds(u) /\ HasNumericExp(users[u].token.access_token))
              => users[u].token.expires_at =
                     Num(ExpSeconds(users[u].token.access_token) * 1000)

(* Witness of C15: a refresh response with exp = 90 was processed for a    *)
(* Principal, who now holds it with expires_at 90000, while another        *)
(* Principal was constructed from a token with exp = 60                    *)
C15_Witness ==
    /\ last.call = "response"
    /\ last.kind = "fulfilled"
    /\ Holds(last.user)
    /\ users[last.user].token.access_token = "h.exp90.s"
    /\ users[last.user].token.expires_at = Num(90000)
    /\ \E u \in UserIds :
          /\ Holds(u)
          /\ users[u].token.access_token = "h.exp60.s"
          /\ users[u].token.expires_at = Num(60000)

----------------------------------------------------------------------------
(* The access tokens whose decoding raises an exception: no payload        *)
(* segment, a payload of illegal length, one that is no base64, one that   *)
(* is no JSON, and the payload null                                        *)
DecodeThrows(access_token) ==
    access_token \in {"opaque", "h.len5.s", "h.e#p.s", "h.bad.s", "h.null.s"}

(* The payload is a JSON object without exp *)
LacksExp(access_token) == access_token = "h.noexp.s"

(* The User that the latest event constructed or gave a new token, if any *)
Processed ==
    IF \/ last.call = "new"
       \/ last.call = "response" /\ last.kind = "fulfilled"
       \/ last.call = "recoverSession" /\ last.kind = "recovered"
    THEN {last.user}
    ELSE {}

----------------------------------------------------------------------------
(* A message is a sequence of pieces of text; it contains a token when one *)
(* of its pieces is the token                                              *)
Contains(message, token) == \E i \in DOMAIN message : message[i] = token

(* C17: no logged message contains raw token material.  For every token    *)
(* response whose payload fails to decode exactly one error is logged, and *)
(* its message contains neither the access_token nor the refresh_token;    *)
(* and nothing that a task of construction, refresh or recovery has        *)
(* written to the console contains an access token.                        *)
C17_NoTokenInLog ==
    /\ \A tokenResponse \in AnyTokenResponses :
          DecodeThrows(tokenResponse.access_token)
              => /\ Len(_processTokenResponseLog(tokenResponse)) = 1
                 /\ ~Contains(_processTokenResponseLog(tokenResponse)[1],
                              tokenResponse.access_token)
                 /\ ~Contains(_processTokenResponseLog(tokenResponse)[1],
                              tokenResponse.refresh_token)
    /\ \A i \in DOMAIN console, token \in AnyAccessTokens \cup RefreshTokens :
          ~Contains(console[i], token)

(* Witness of C17: a refresh response whose payload is no JSON was         *)
(* processed; the one message logged names the SyntaxError and the text    *)
(* that did not parse, not the token                                       *)
C17_Witness ==
    /\ last.call = "response"
    /\ last.kind = "fulfilled"
    /\ Holds(last.user)
    /\ users[last.user].token.access_token = "h.bad.s"
    /\ console = << <<"Gotrue-js: Failed to parse tokenResponse claims: ",
                      "SyntaxError", "junk">> >>

----------------------------------------------------------------------------
(* The error is JSON-shaped: a JSONHTTPError whose json is an object *)
JSONShaped(error) == error.name = "JSONHTTPError" /\ error.json \notin {Null, Undefined}

Present(json, key) == key \in DOMAIN json
NonEmpty(json, key) == key \in DOMAIN json /\ json[key] # Str("")

(* "{error}: {error_description}", with the text undefined for a           *)
(* description that is not there                                           *)
Composed(json) ==
    <<json.error.s, ": ",
      IF Present(json, "error_description") THEN json.error_description.s
      ELSE "undefined">>

(* The errors that the two catch-handlers of _request may catch *)
Caught == HTTPErrors \cup {errorOf(value) : value \in TransportErrors \cup {NoTokenError}}

(* The calls that are waiting for Transport and reject when it fails *)
Waiting == {o \in 1..MaxOps : ops[o].pc = "request" /\ ops[o].call # "logout"}

Rejects(h, o, error) ==
    /\ h.ops[o] = NoOp
    /\ h.done = {[user |-> ops[o].user, call |-> ops[o].call,
                  outcome |-> "rejected", error |-> error]}

(* C18 as stated: the error is raised again with its message rewritten by  *)
(* presence: the msg field if present, else "{error}: {error_description}" *)
(* if error is present, else the message of Transport; an error that is    *)
(* not JSON-shaped is raised again unchanged.                              *)
AsStatedError(error) ==
    IF ~JSONShaped(error) THEN error
    ELSE IF Present(error.json, "msg")
    THEN [error EXCEPT !.message = <<error.json.msg.s>>]
    ELSE IF Present(error.json, "error")
    THEN [error EXCEPT !.message = Composed(error.json)]
    ELSE error

C18_AsStated ==
    /\ \A o \in Waiting, error \in HTTPErrors :
          IF ops[o].user = NoUser
          THEN Rejects(authFailed(Heap, o, error), o, AsStatedError(error))
          ELSE Rejects(requestFailed(Heap, o, error), o, AsStatedError(error))
    /\ (last.call \in {"requestResponse", "authResponse"} /\ last.arg = FALSE)
          => \E d \in last.done, error \in HTTPErrors :
                 /\ d.outcome = "rejected"
                 /\ d.error = AsStatedError(error)

(* C18, corrected: the precedence is by non-empty value, not by presence:  *)
(* the msg field if it is a non-empty text, else                           *)
(* "{error}: {error_description}" if error is a non-empty text, else the   *)
(* message of Transport.  The promise of the call rejects with that same   *)
(* error, all else of it unchanged, and with an error that is not          *)
(* JSON-shaped as it came.                                                 *)
RaisedError(error) ==
    IF ~JSONShaped(error) THEN error
    ELSE IF NonEmpty(error.json, "msg")
    THEN [error EXCEPT !.message = <<error.json.msg.s>>]
    ELSE IF NonEmpty(error.json, "error")
    THEN [error EXCEPT !.message = Composed(error.json)]
    ELSE error

C18_MessageByPrecedence ==
    /\ \A error \in Caught :
          /\ _requestCatch(error) = RaisedError(error)
          /\ GoTrue_requestCatch(error) = RaisedError(error)
    /\ \A o \in Waiting, error \in HTTPErrors :
          IF ops[o].user = NoUser
          THEN Rejects(authFailed(Heap, o, error), o, RaisedError(error))
          ELSE Rejects(requestFailed(Heap, o, error), o, RaisedError(error))
    /\ (last.call \in {"requestResponse", "authResponse"} /\ last.arg = FALSE)
          => \E d \in last.done, error \in HTTPErrors :
                 /\ d.outcome = "rejected"
                 /\ d.error = RaisedError(error)

(* Witness of C18: Transport failed a request of User._request with a      *)
(* JSONHTTPError whose msg is the empty text; the call rejected with the   *)
(* error, its message composed of error and error_description              *)
C18_Witness ==
    /\ last.call = "requestResponse"
    /\ last.arg = FALSE
    /\ last.kind = "_request"
    /\ \E d \in last.done :
          /\ d.outcome = "rejected"
          /\ d.error.name = "JSONHTTPError"
          /\ d.error.json = [msg |-> Str(""), error |-> Str("invalid_grant"),
                             error_description |-> Str("Invalid credentials")]
          /\ d.error.message = <<"invalid_grant", ": ", "Invalid credentials">>

----------------------------------------------------------------------------
(* The requests of calls of User._request that Transport has received and  *)
(* not yet settled, each with the slot of its call                         *)
Forwarded(h) ==
    {<<o, h.ops[o].request>> :
        o \in {q \in 1..MaxOps : h.ops[q].pc = "request" /\ h.ops[q].user # NoUser}}

(* The calls of User._request that wait for the promise of race p *)
Awaiting(p) == {o \in 1..MaxOps : ops[o].pc = "jwt" /\ ops[o].promise = p}

(* The audience header a request is to carry: the audience of the request  *)
(* if not empty, else that of the Principal if not empty, else none        *)
ExpectedAudience(optionsAudience, own) ==
    IF optionsAudience \notin {Undefined, Str("")} THEN optionsAudience
    ELSE IF own \notin {Undefined, Str("")} THEN own
    ELSE Undefined

ExpectedHeaders(audience, access_token) ==
    [X_JWT_AUD |-> audience,
     Authorization |-> [scheme |-> "Bearer", credentials |-> access_token]]

(* C19: every request that User._request forwards to Transport carries     *)
(* Authorization: Bearer with the access token that jwt() returned for the *)
(* call, at once or when the refresh it waited for fulfilled, and          *)
(* X-JWT-AUD equal to the audience of the request if that is not empty,    *)
(* else to the audience of the Principal if that is not empty, and no      *)
(* X-JWT-AUD otherwise; when jwt() fails, at once or with the refresh, the *)
(* call rejects and no request for its path reaches Transport.             *)
C19_RequestHeaders ==
    /\ \A u \in UserIds, audience \in RequestAudiences :
          (HasFree(ops, NoOp) /\ JwtEnabled(u, FALSE))
              => LET o == FreeSlot(ops, NoOp)
                     r == jwt(Heap, u, FALSE, now)
                     h == _request(Heap, o, u, "_request", "/admin/users", audience,
                                   FALSE, now)
                     aud == ExpectedAudience(audience, users[u].audience)
                 IN  CASE r.kind = "resolved" ->
                              /\ r.value = users[u].token.access_token
                              /\ Forwarded(h) = Forwarded(Heap) \cup
                                     {<<o, [path |-> "/admin/users",
                                            headers |-> ExpectedHeaders(aud, r.value)]>>}
                       [] r.kind = "promise" ->
                              /\ Forwarded(h) = Forwarded(Heap)
                              /\ h.ops[o].pc = "jwt"
                              /\ h.ops[o].promise = r.promise
                              /\ h.ops[o].request =
                                     [path |-> "/admin/users",
                                      headers |-> [X_JWT_AUD |-> aud,
                                                   Authorization |-> Undefined]]
                       [] OTHER ->
                              /\ InFlight(h) = InFlight(Heap)
                              /\ h.ops[o] = NoOp
                              /\ \E d \in h.done : d.outcome = "rejected"
    /\ \A p \in RaceIds, response \in TokenResponses :
          Pending(p)
              => Forwarded(requestSettled(raceSettles(Heap, p, TRUE, response), p)) =
                     Forwarded(Heap) \cup
                         {<<o, [path |-> ops[o].request.path,
                                headers |-> ExpectedHeaders(
                                                ops[o].request.headers.X_JWT_AUD,
                                                response.access_token)]>> :
                              o \in Awaiting(p)}
    /\ \A p \in RaceIds, error \in TransportErrors :
          Pending(p)
              => LET h == requestSettled(raceSettles(Heap, p, FALSE, error), p)
                 IN  /\ Forwarded(h) = Forwarded(Heap)
                     /\ \A o \in Awaiting(p) : h.ops[o] = NoOp
    /\ \A o \in 1..MaxOps :
          (ops[o].pc = "request" /\ ops[o].user # NoUser)
              => /\ ops[o].request.headers.Authorization # Undefined
                 /\ ops[o].request.headers.Authorization.scheme = "Bearer"
                 /\ ops[o].request.headers.Authorization.credentials \in AccessTokens
                 /\ ops[o].request.headers.X_JWT_AUD # Str("")

(* Witness of C19: a call of _request with its own audience waited for a   *)
(* refresh; the refresh fulfilled and the request went out with the new    *)
(* access token and the audience of the request, not that of the Principal *)
C19_Witness ==
    /\ last.call = "response"
    /\ last.kind = "fulfilled"
    /\ Holds(last.user)
    /\ users[last.user].audience = Str("aud")
    /\ \E o \in 1..MaxOps :
          /\ ops[o].pc = "request"
          /\ ops[o].call = "_request"
          /\ ops[o].user = last.user
          /\ ops[o].request.headers =
                 ExpectedHeaders(Str("other"), users[last.user].token.access_token)
          /\ last.value = users[last.user].token.access_token

----------------------------------------------------------------------------
(* The protected names, and the names of the model that are members        *)
(* defined on the type of User                                             *)
ProtectedNames == {"api", "token", "audience", "url"}
TypeMembers == {"jwt"}

(* _saveUserData is to copy the key from the map *)
ToCopy(attributes, k) ==
    k \in DOMAIN attributes /\ k \notin ProtectedNames /\ k \notin TypeMembers

(* C20 as stated: after _saveUserData every key of the map that is neither *)
(* protected nor a member of the type has the value in the map, and every  *)
(* other key of the map was not copied.                                    *)
C20_AsStated ==
    \A u \in UserIds, attributes \in AttributeMaps, fromStorage \in BOOLEAN :
        \A k \in DOMAIN attributes :
            _saveUserData(users[u], attributes, fromStorage)[k] =
                IF ToCopy(attributes, k) THEN attributes[k] ELSE users[u][k]

(* C20, corrected: the same, but for the marker: when _saveUserData is     *)
(* called with fromStorage true, as recoverSession calls it, _fromStorage  *)
(* is true afterwards, whatever the map has for that key.  Keys that are   *)
(* not in the map keep their values.                                       *)
C20_CopiesAttributes ==
    /\ \A u \in UserIds, attributes \in AttributeMaps, fromStorage \in BOOLEAN :
          \A k \in PropNames :
              _saveUserData(users[u], attributes, fromStorage)[k] =
                  IF fromStorage /\ k = "_fromStorage" THEN Bool(TRUE)
                  ELSE IF ToCopy(attributes, k) THEN attributes[k]
                  ELSE users[u][k]
    /\ (last.call = "recoverSession" /\ last.kind = "recovered")
          => /\ users[last.user]._fromStorage = Bool(TRUE)
             /\ \A k \in DOMAIN localStorage \ {"_fromStorage"} :
                   ToCopy(localStorage, k) => users[last.user][k] = localStorage[k]

(* Witness of C20: a snapshot whose _fromStorage is not true was           *)
(* recovered: the User has the email of the snapshot, and _fromStorage     *)
(* true                                                                    *)
C20_Witness ==
    /\ last.call = "recoverSession"
    /\ last.kind = "recovered"
    /\ "_fromStorage" \in DOMAIN localStorage
    /\ localStorage._fromStorage = Str("v1")
    /\ "email" \in DOMAIN localStorage
    /\ users[last.user].email = localStorage.email
    /\ users[last.user]._fromStorage = Bool(TRUE)

----------------------------------------------------------------------------
(* C21: clearSession() from any state removes the snapshot, sets the token *)
(* of the Principal to null, so that tokenDetails() returns null, and      *)
(* clears the current-principal reference, whoever that was; it leaves all *)
(* else as it is, and a second clearSession() changes nothing more.        *)
C21_ClearSessionIdempotent ==
    /\ \A u \in UserIds :
          /\ clearSession(Heap, u).localStorage = NoItem
          /\ tokenDetails(clearSession(Heap, u).users[u]) = Null
          /\ clearSession(Heap, u).currentUser = NoUser
          /\ clearSession(clearSession(Heap, u), u) = clearSession(Heap, u)
          /\ clearSession(Heap, u) =
                 [Heap EXCEPT !.localStorage = NoItem, !.currentUser = NoUser,
                              !.users = [users EXCEPT ![u].token = Null]]
    /\ last.call = "clearSession"
          => /\ SessionCleared(Heap, last.user)
             /\ tokenDetails(users[last.user]) = Null
             /\ clearSession(Heap, last.user) = Heap

(* Witness of C21: clearSession() was called on a Principal whose refresh  *)
(* is in flight, while another Principal holds a token                     *)
C21_Witness ==
    /\ last.call = "clearSession"
    /\ SessionCleared(Heap, last.user)
    /\ \E p \in RaceIds : Pending(p) /\ races[p].user = last.user
    /\ \E u \in UserIds : u # last.user /\ Holds(u)

----------------------------------------------------------------------------
(* The calls of login() that wait for the token, and those whose           *)
(* createUser() waits for the user data                                    *)
TokenAwaited == {o \in DOMAIN ops : ops[o].pc = "request" /\ ops[o].call = "login"}
UserDataAwaited ==
    {o \in DOMAIN ops : ops[o].pc = "request" /\ ops[o].call = "createUser"}

(* The call in slot o has resolved in h *)
Resolves(h, o) ==
    /\ h.ops[o] = NoOp
    /\ h.done = {[user |-> ops[o].user, call |-> ops[o].call,
                  outcome |-> "resolved", error |-> Undefined]}

(* C22 as stated: the snapshot stored before is removed when the token     *)
(* request succeeds, and when login() resolves storage holds the snapshot  *)
(* of the returned Principal if remember is true and nothing if remember   *)
(* is false.                                                               *)
C22_AsStated ==
    /\ \A o \in TokenAwaited, tokenResponse \in TokenResponses :
          (Len(users) < MaxUsers
               /\ (createUserStartsRace(Heap, tokenResponse, now) => HasFree(races, NoRace)))
              => authThen(Heap, o, tokenResponse, now).localStorage = NoItem
    /\ \A o \in UserDataAwaited, response \in UserDatas :
          /\ Resolves(requestFulfilled(Heap, o, response), o)
          /\ requestFulfilled(Heap, o, response).localStorage =
                 IF ops[o].remember
                 THEN _details(requestFulfilled(Heap, o, response).users[ops[o].user])
                 ELSE NoItem

(* C22, corrected: with remember = false storage holds nothing when        *)
(* login() resolves unless a snapshot was stored after the token request   *)
(* succeeded, as by another login() with remember = true that resolved in  *)
(* between: then the snapshot is rewritten with that of the returned       *)
(* Principal.  With remember = true storage holds the snapshot of the      *)
(* returned Principal.                                                     *)
C22_LoginSnapshot ==
    /\ \A o \in TokenAwaited, tokenResponse \in TokenResponses :
          (Len(users) < MaxUsers
               /\ (createUserStartsRace(Heap, tokenResponse, now) => HasFree(races, NoRace)))
              => authThen(Heap, o, tokenResponse, now).localStorage = NoItem
    /\ \A o \in UserDataAwaited, response \in UserDatas :
          /\ Resolves(requestFulfilled(Heap, o, response), o)
          /\ requestFulfilled(Heap, o, response).localStorage =
                 IF ops[o].remember \/ localStorage # NoItem
                 THEN _details(requestFulfilled(Heap, o, response).users[ops[o].user])
                 ELSE NoItem
    /\ (last.call = "requestResponse" /\ last.kind = "createUser" /\ last.arg)
          => /\ localStorage \in {NoItem, _details(users[last.user])}
             /\ last.value = "remember" => localStorage = _details(users[last.user])

(* Witness of C22: a login() with remember = false has resolved and        *)
(* storage holds the snapshot of its Principal, who is not the one of the  *)
(* login() that asked to be remembered                                     *)
C22_Witness ==
    /\ last.call = "requestResponse"
    /\ last.kind = "createUser"
    /\ last.arg
    /\ last.value = ""
    /\ \E d \in last.done : d.outcome = "resolved" /\ d.user = last.user
    /\ localStorage # NoItem
    /\ localStorage = _details(users[last.user])
    /\ Len(users) = 2


----------------------------------------------------------------------------
(* The authentication calls that wait for the token *)
AuthAwaited ==
    {o \in DOMAIN ops : ops[o].pc = "request" /\ ops[o].call \in {"login", "verify"}}

(* C23 as stated: when an authentication call resolves with Principal P,   *)
(* recoverSession() returns P, also with several calls under way.          *)
C23_AsStated ==
    \A o \in UserDataAwaited, response \in UserDatas :
        recoverSession(requestFulfilled(Heap, o, response), TheApi).value = ops[o].user

(* C23, corrected: a Principal becomes the current one when it is          *)
(* constructed, which is when the token request succeeds; the resolution   *)
(* of the call leaves the current principal as it is.  So when the call    *)
(* resolves the current principal, if there is one, is the Principal       *)
(* constructed last, and recoverSession() returns the Principal of the     *)
(* call if no other was constructed and no session cleared in between.     *)
C23_CurrentIsLastConstructed ==
    /\ \A o \in AuthAwaited, tokenResponse \in TokenResponses :
          (Len(users) < MaxUsers
               /\ (createUserStartsRace(Heap, tokenResponse, now) => HasFree(races, NoRace)))
              => /\ authThen(Heap, o, tokenResponse, now).currentUser = Len(users) + 1
                 /\ authThen(Heap, o, tokenResponse, now).ops[o].user = Len(users) + 1
    /\ \A o \in UserDataAwaited, response \in UserDatas :
          /\ Resolves(requestFulfilled(Heap, o, response), o)
          /\ requestFulfilled(Heap, o, response).currentUser = currentUser
          /\ currentUser = ops[o].user
                => recoverSession(requestFulfilled(Heap, o, response), TheApi)
                     = [h |-> requestFulfilled(Heap, o, response),
                        kind |-> "current", value |-> ops[o].user]
    /\ (last.call = "requestResponse" /\ last.kind = "createUser" /\ last.arg)
          => currentUser \in {NoUser, Len(users)}

(* Witness of C23: an authentication call has resolved with its Principal  *)
(* while the Principal of a call that succeeded later is the current one   *)
C23_Witness ==
    /\ last.call = "requestResponse"
    /\ last.kind = "createUser"
    /\ last.arg
    /\ \E d \in last.done : d.outcome = "resolved" /\ d.user = last.user
    /\ currentUser # NoUser
    /\ currentUser # last.user
    /\ Holds(last.user)


----------------------------------------------------------------------------
(* C24: with cookie mode enabled _setRememberHeaders(remember) sets the    *)
(* default header X-Use-Cookie to "1" if remember is true and to "session" *)
(* otherwise and changes nothing else; with cookie mode disabled it        *)
(* changes nothing, and X-Use-Cookie is never among the default headers.   *)
C24_RememberHeaders ==
    /\ \A remember \in RememberArgs :
          IF setCookie
          THEN _setRememberHeaders(Heap, remember) =
                   [Heap EXCEPT !.defaultHeaders =
                       [defaultHeaders EXCEPT !.X_Use_Cookie =
                           IF remember = Bool(TRUE) THEN Str("1") ELSE Str("session")]]
          ELSE _setRememberHeaders(Heap, remember) = Heap
    /\ ~setCookie => defaultHeaders = ClientHeaders
    /\ (setCookie /\ last.call \in {"_setRememberHeaders", "login", "verify"})
          => defaultHeaders.X_Use_Cookie = IF last.arg THEN Str("1") ELSE Str("session")
    /\ defaultHeaders.X_Nf_Client = Str("gotrue-js")

(* Witness of C24: with cookie mode enabled _setRememberHeaders() without  *)
(* a true argument has set the header to "session", on a page that has     *)
(* recovered a Principal from storage                                      *)
C24_Witness ==
    /\ setCookie
    /\ last.call = "_setRememberHeaders"
    /\ ~last.arg
    /\ defaultHeaders.X_Use_Cookie = Str("session")
    /\ \E u \in UserIds : Holds(u) /\ users[u]._fromStorage = Bool(TRUE)


----------------------------------------------------------------------------
(* The calls whose request Transport has yet to answer, a response with a  *)
(* JSON content type, one with a 2xx status, and a body that is JSON       *)
FetchAwaited == {o \in DOMAIN ops : ops[o].pc = "request" /\ ops[o].call = "_request"}
JSONTyped(response) ==
    /\ response.contentType # Null
    /\ \E i \in 1..Len(response.contentType.pieces) :
          response.contentType.pieces[i] = "json"
Is2xx(response) == response.status \in 200..299
Denotes(body) == \E v \in {Null, [msg |-> Str("User not found")]} : body = JSONText(v)

(* The error is of the class named and carries the status *)
Carries(error, name, response) ==
    /\ error.name = name
    /\ error.status = Num(response.status)
    /\ error.message = <<statusText(response)>>

(* C25 as stated: request succeeds for every 2xx response and fails for    *)
(* every other; with a JSON content type the value is the parsed body and  *)
(* the failure a JSONHTTPError, with another content type the value is the *)
(* raw text and the failure a TextHTTPError.                               *)
C25_AsStated ==
    \A o \in FetchAwaited, response \in HTTPResponses :
        /\ API_request(response).ok = Is2xx(response)
        /\ (~Is2xx(response) /\ JSONTyped(response))
              => Carries(API_request(response).value, "JSONHTTPError", response)
        /\ (~Is2xx(response) /\ ~JSONTyped(response))
              => /\ Carries(API_request(response).value, "TextHTTPError", response)
                 /\ API_request(response).value.data = response.body

(* What request does, for comparison with C25: with a JSON content type    *)
(* (one whose text contains 'json') and a body that is not JSON it fails   *)
(* with the SyntaxError of response.json() whatever the status, an error   *)
(* that carries no status.  Otherwise it succeeds for 2xx                  *)
(* and fails for every other status: with a JSON content type the value is *)
(* the parsed body and the failure a JSONHTTPError with the status and the *)
(* parsed body; with another content type or none the value is the raw     *)
(* text and the failure a TextHTTPError with the status and the raw text.  *)
(* The caller of _request resolves with the value or rejects.              *)
C25_RequestOutcome ==
    /\ \A o \in FetchAwaited, response \in HTTPResponses :
          /\ API_request(response).ok
                = (Is2xx(response) /\ (JSONTyped(response) => Denotes(response.body)))
          /\ (JSONTyped(response) /\ ~Denotes(response.body))
                => API_request(response).value.name = "SyntaxError"
          /\ (JSONTyped(response) /\ Denotes(response.body))
                => IF Is2xx(response)
                   THEN JSONText(API_request(response).value) = response.body
                   ELSE /\ Carries(API_request(response).value, "JSONHTTPError", response)
                        /\ JSONText(API_request(response).value.json) = response.body
          /\ ~JSONTyped(response)
                => IF Is2xx(response)
                   THEN API_request(response).value = response.body
                   ELSE /\ Carries(API_request(response).value, "TextHTTPError", response)
                        /\ API_request(response).value.data = response.body
          /\ requestGave(Heap, o, API_request(response)).done =
                 {[user |-> ops[o].user, call |-> "_request",
                   outcome |-> IF API_request(response).ok THEN "resolved" ELSE "rejected",
                   error |-> IF API_request(response).ok THEN Undefined
                             ELSE _requestCatch(API_request(response).value)]}
    /\ last.call = "fetchResponse"
          => /\ last.arg = (Is2xx(last.kind) /\ (JSONTyped(last.kind) => Denotes(last.kind.body)))
             /\ \E d \in last.done :
                   d.outcome = IF last.arg THEN "resolved" ELSE "rejected"

(* The failing case of C25 has happened: a 2xx response with a JSON        *)
(* content type and an empty body has failed the call with a SyntaxError   *)
C25_Witness ==
    /\ last.call = "fetchResponse"
    /\ ~last.arg
    /\ last.kind.status = 204
    /\ JSONTyped(last.kind)
    /\ last.kind.body = Str("")
    /\ last.value.name = "SyntaxError"
    /\ \E d \in last.done : d.outcome = "rejected" /\ d.error.name = "SyntaxError"


----------------------------------------------------------------------------
(* The calls whose jwt() awaits the promise of race p, and the access      *)
(* token that jwt() gave to the call in slot o                             *)
AwaitingRace(p) == {o \in DOMAIN ops : ops[o].pc = "jwt" /\ ops[o].promise = p}
Given(h, o) == h.ops[o].request.headers.Authorization.credentials

(* C26 as stated: when jwt() of a Principal resolves through a refresh,    *)
(* the access token returned is the one in the token this Principal then   *)
(* holds, also when the refresh is that of another Principal with the same *)
(* refresh-token value.                                                    *)
C26_AsStated ==
    \A p \in RaceIds : \A response \in TokenResponses, o \in AwaitingRace(p) :
        Pending(p)
            => /\ Holds(ops[o].user)
                    => raceSettles(Heap, p, TRUE, response).users[ops[o].user].token.access_token
                           = Given(raceSettles(Heap, p, TRUE, response), o)

(* C26, corrected: the registry has one ticket for a refresh-token value,  *)
(* and a Principal whose jwt() finds the ticket of another Principal with  *)
(* the same value awaits that ticket.  When the refresh succeeds, every    *)
(* awaiting call is given the access token of the response, which is the   *)
(* one the Principal that started the refresh then holds; only that        *)
(* Principal's token is replaced, any other keeps the token it held.       *)
C26_SharedTicket ==
    /\ \A p \in RaceIds : \A response \in TokenResponses, o \in AwaitingRace(p) :
          Pending(p)
              => /\ Given(raceSettles(Heap, p, TRUE, response), o) = response.access_token
                 /\ raceSettles(Heap, p, TRUE, response).users[races[p].user].token.access_token
                        = response.access_token
                 /\ \A u \in UserIds \ {races[p].user} :
                        raceSettles(Heap, p, TRUE, response).users[u].token = users[u].token
                 /\ Holds(ops[o].user)
                        => users[ops[o].user].token.refresh_token = races[p].refresh_token
    /\ (last.call = "response" /\ last.kind = "fulfilled")
          => /\ Holds(last.user)
             /\ users[last.user].token.access_token = last.value

(* Witness of C26: a refresh of one Principal has succeeded, and a call of *)
(* another Principal that awaited it was given the new access token while  *)
(* that Principal still holds its old token                                *)
C26_Witness ==
    /\ last.call = "response"
    /\ last.kind = "fulfilled"
    /\ \E o \in DOMAIN ops :
          /\ ops[o].pc = "request"
          /\ ops[o].user # last.user
          /\ Holds(ops[o].user)
          /\ Given(Heap, o) = last.value
          /\ users[last.user].token.access_token = last.value
          /\ users[ops[o].user].token.access_token # last.value


----------------------------------------------------------------------------
(* C27 as stated: a Principal whose token is null, as after clearSession() *)
(* or logout(), holds no token in any later state, also when a refresh     *)
(* started before the clear succeeds afterwards.                           *)
C27_AsStated ==
    [][\A u \in UserIds : users[u].token = Null => users'[u].token = Null]_vars

(* What the code does, for comparison with C27: the token of a Principal   *)
(* leaves null in one way only, by the success of a refresh that was       *)
(* under way when the session was cleared; the Principal then holds the    *)
(* token of the response, and is not made the current principal again.     *)
C27_LateSuccessRestores ==
    /\ [](\A p \in RaceIds, response \in TokenResponses :
             (Pending(p) /\ users[races[p].user].token = Null)
                 => /\ raceSettles(Heap, p, TRUE, response).users[races[p].user].token
                           = _processTokenResponse(response)
                    /\ raceSettles(Heap, p, TRUE, response).currentUser = currentUser)
    /\ [][\A u \in UserIds :
             (users[u].token = Null /\ users'[u].token # Null)
                 => /\ last'.call = "response"
                    /\ last'.kind = "fulfilled"
                    /\ last'.user = u]_vars

(* The failing case of C27 is at hand: clearSession() has completed on a   *)
(* Principal while the refresh it started before is still under way        *)
C27_Witness ==
    /\ last.call = "clearSession"
    /\ users[last.user].token = Null
    /\ \E p \in RaceIds : Pending(p) /\ races[p].user = last.user


----------------------------------------------------------------------------
(* A call of logout() on the Principal u is under way *)
LoggingOut(u) ==
    \E o \in DOMAIN ops : ops[o].pc # "none" /\ ops[o].call = "logout" /\ ops[o].user = u

(* The session of u is cleared; there is no u before it is constructed *)
Cleared(u) == u \in UserIds /\ SessionCleared(Heap, u)

(* C28 as stated: every logout() eventually clears the session, whether    *)
(* or not '/logout' is ever answered.                                      *)
C28_AsStated == \A u \in 1..MaxUsers : LoggingOut(u) ~> Cleared(u)

(* The failing case of C28 is at hand: the '/logout' request of a          *)
(* Principal with a valid token is in flight, and the session is as it was *)
C28_Witness ==
    \E o \in DOMAIN ops :
        /\ ops[o].pc = "request"
        /\ ops[o].call = "logout"
        /\ Holds(ops[o].user)
        /\ currentUser = ops[o].user

(* C29: a race of the refresh protocol that is unsettled eventually        *)
(* settles, and with it every jwt() that awaits it, also when Transport    *)
(* never answers: the timer fails the race.                                *)
C29_JwtSettles == \A p \in RaceIds : Pending(p) ~> ~Pending(p)

(* Witness of C29: the timer has failed a race whose request is still in   *)
(* flight, and jwt() rejects with the timeout error                        *)
C29_Witness ==
    /\ last.call = "timer"
    /\ last.value = TimeoutError
    /\ TimedOut(last.promise)
    /\ <<"race", last.promise, races[last.promise].request>> \in InFlight(Heap)


----------------------------------------------------------------------------
(* The errors a refresh ticket fails with: those of the server and that of *)
(* the timer; and the failures of race p that can happen now               *)
TicketErrors == TransportErrors \cup {TimeoutError}
FailsNow(p, error) == Pending(p) /\ (error = TimeoutError => now >= races[p].deadline)

(* C30: when a refresh ticket fails, its promise rejects with the error of *)
(* the server or of the timer, every call that awaits it is given that     *)
(* same error and rejects with it without a request to Transport, and      *)
(* jwt() on the Principal of the ticket rejects with the no-token error    *)
(* afterwards, forced or not, and starts no refresh.                       *)
C30_FailurePropagates ==
    /\ \A p \in RaceIds : \A error \in TicketErrors, o \in AwaitingRace(p) :
          FailsNow(p, error)
              => /\ raceSettles(Heap, p, FALSE, error).value = error
                 /\ raceSettles(Heap, p, FALSE, error).ops[o] = NoOp
                 /\ [user |-> ops[o].user, call |-> ops[o].call, outcome |-> "rejected",
                     error |-> _requestCatch(errorOf(error))]
                        \in raceSettles(Heap, p, FALSE, error).done
                 /\ InFlight(raceSettles(Heap, p, FALSE, error)) = InFlight(Heap)
    /\ \A p \in RaceIds : \A error \in TicketErrors, forceRefresh \in BOOLEAN :
          FailsNow(p, error)
              => jwt(raceSettles(Heap, p, FALSE, error), races[p].user, forceRefresh, now)
                    = [h |-> raceSettles(Heap, p, FALSE, error), kind |-> "rejected",
                       value |-> NoTokenError, promise |-> NoPromise]
    /\ (last.call \in {"response", "timer"} /\ last.kind = "rejected")
          => /\ last.value \in TicketErrors
             /\ users[last.user].token = Null
             /\ \A d \in last.done :
                   d.outcome = "rejected" /\ d.error = _requestCatch(errorOf(last.value))
    /\ (last.call = "jwt" /\ users[last.user].token = Null)
          => /\ last.kind = "rejected"
             /\ last.value = NoTokenError
             /\ last.promise = NoPromise

(* Witness of C30: the timer has failed a ticket that two calls awaited,   *)
(* and both have rejected with the timeout error                           *)
C30_Witness ==
    /\ last.call = "timer"
    /\ last.kind = "rejected"
    /\ last.value = TimeoutError
    /\ Cardinality({o \in DOMAIN ops : ops[o] = NoOp}) = 2
    /\ \E d \in last.done : d.user = last.user /\ d.error.message = <<TimeoutError>>
    /\ \E d \in last.done : d.user # last.user /\ d.error.message = <<TimeoutError>>


----------------------------------------------------------------------------
(* An authentication call can go on with tokenResponse: the model has room *)
(* for the Principal and for the race its getUserData() may start          *)
CanCreate(tokenResponse) ==
    /\ Len(users) < MaxUsers
    /\ createUserStartsRace(Heap, tokenResponse, now) => HasFree(races, NoRace)

(* C31 as stated: when login or verify succeeds while another Principal is *)
(* current, the token of the replaced Principal is nulled.                 *)
C31_AsStated ==
    \A o \in AuthAwaited, tokenResponse \in TokenResponses :
        (CanCreate(tokenResponse) /\ currentUser # NoUser)
            => authThen(Heap, o, tokenResponse, now).users[currentUser].token = Null

(* C31, corrected: the replaced Principal is no longer the current one and *)
(* is otherwise left as it was: it keeps its token, and jwt() on it does   *)
(* not fail with the no-token error.  login() removes the stored snapshot, *)
(* verify() leaves it.                                                     *)
C31_ReplacedKeepsToken ==
    /\ \A o \in AuthAwaited, tokenResponse \in TokenResponses :
          CanCreate(tokenResponse)
              => /\ \A u \in UserIds :
                        authThen(Heap, o, tokenResponse, now).users[u] = users[u]
                 /\ authThen(Heap, o, tokenResponse, now).currentUser = Len(users) + 1
                 /\ authThen(Heap, o, tokenResponse, now).localStorage
                        = IF ops[o].call = "login" THEN NoItem ELSE localStorage
                 /\ \A u \in UserIds :
                        (Holds(u) /\ JwtEnabled(u, FALSE))
                            => jwt(authThen(Heap, o, tokenResponse, now), u, FALSE, now).kind
                                   \in {"resolved", "promise"}
    /\ (last.call = "authResponse" /\ last.arg)
          => currentUser = Len(users)

(* Witness of C31: a second authentication call has succeeded, its         *)
(* Principal is the current one and the replaced Principal holds its token *)
C31_Witness ==
    /\ last.call = "authResponse"
    /\ last.arg
    /\ Len(users) = 2
    /\ currentUser = 2
    /\ Holds(1)
    /\ jwt(Heap, 1, FALSE, now).kind = "resolved"


----------------------------------------------------------------------------
(* C32 as stated: for every apiInstance the url of the recovered Principal *)
(* is the url of the stored snapshot.                                      *)
C32_AsStated ==
    \A apiInstance \in {Undefined, TheApi, OtherApi} :
        recoverConstructs(Heap)
            => recoverSession(Heap, apiInstance).h.users[Len(users) + 1].url
                   = localStorage.url

(* C32, corrected: the url of the recovered Principal is the apiURL of the *)
(* apiInstance passed in, and the url of the stored snapshot only when     *)
(* none is passed; the stored url is not merged onto the Principal, and    *)
(* the stored snapshot stays as it was.                                    *)
C32_UrlOfApiInstance ==
    /\ \A apiInstance \in {Undefined, TheApi, OtherApi} :
          recoverConstructs(Heap)
              => /\ recoverSession(Heap, apiInstance).kind = "recovered"
                 /\ recoverSession(Heap, apiInstance).h.users[Len(users) + 1].url
                        = IF apiInstance = Undefined THEN localStorage.url
                          ELSE Str(apiInstance.apiURL)
                 /\ recoverSession(Heap, apiInstance).h.users[Len(users) + 1].api
                        = IF apiInstance = Undefined THEN [apiURL |-> localStorage.url.s]
                          ELSE apiInstance
                 /\ recoverSession(Heap, apiInstance).h.localStorage = localStorage
    /\ \A u \in UserIds : users[u].url = Str(users[u].api.apiURL)

(* Witness of C32: recoverSession() was given an API object of another     *)
(* origin, and the recovered Principal has the url of that object, not the *)
(* one of the snapshot                                                     *)
C32_Witness ==
    /\ last.call = "recoverSession"
    /\ last.kind = "recovered"
    /\ users[last.user].api = OtherApi
    /\ users[last.user].url = Str("https://other.example")
    /\ localStorage.url = Str("https://id.example")

----------------------------------------------------------------------------
(* The marker _fromStorage *)

(* The user data of a server whose answers may have a member _fromStorage *)
ServerMaps ==
    { [email |-> Str("v1")],
      [_fromStorage |-> Bool(TRUE)],
      [email |-> Str("v1"), _fromStorage |-> Bool(TRUE)],
      [email |-> Str("v1"), _fromStorage |-> Bool(FALSE)] }

(* attributes._fromStorage === true *)
Marks(attributes) ==
    "_fromStorage" \in DOMAIN attributes /\ attributes._fromStorage = Bool(TRUE)

(* Transport answers the request of getUserData, update or createUser with *)
(* one of these maps; the event tells whether the map marks                *)
UserDataResponse ==
    \E o \in DOMAIN ops, response \in ServerMaps :
        /\ ops[o].pc = "request"
        /\ ops[o].call \in {"getUserData", "update", "createUser"}
        /\ Commit(requestFulfilled(Heap, o, response))
        /\ last' = Event("userData", ops[o].user, Marks(response), ops[o].call, "",
                         NoPromise, requestFulfilled(Heap, o, response).done)
        /\ UNCHANGED now

NextMarker ==
    \/ \E remember \in BOOLEAN : Login(Undefined, remember)
    \/ AuthResponse
    \/ GetUserData
    \/ Update
    \/ UserDataResponse
    \/ RecoverSession
    \/ Reload

SpecMarker == Init /\ [][NextMarker]_vars

(* The marker of User u is true *)
Marked(us, u) == u \in DOMAIN us /\ us[u]._fromStorage = Bool(TRUE)

(* C33 as stated: the marker _fromStorage of a Principal becomes true only *)
(* in a call of recoverSession() that recovers it: no answer of the server *)
(* to getUserData or update and no login or verify makes it true           *)
C33_AsStated ==
    [][\A u \in 1..MaxUsers :
          Marked(users', u) /\ ~Marked(users, u)
          => last'.call = "recoverSession" /\ last'.user = u]_vars

(* C33: the marker _fromStorage of a Principal becomes true only in a call *)
(* of recoverSession() that recovers it, or when the server answers its    *)
(* getUserData, update or createUser with a map whose member _fromStorage  *)
(* is true, which the merge copies like any other attribute; a Principal   *)
(* that login or verify constructs starts without the marker               *)
C33_MarkerSources ==
    [][\A u \in 1..MaxUsers :
          Marked(users', u) /\ ~Marked(users, u)
          => \/ last'.call = "recoverSession" /\ last'.user = u
                /\ last'.kind = "recovered"
             \/ last'.call = "userData" /\ last'.user = u /\ last'.arg]_vars

(* Witness of C33: the server answered getUserData of a Principal with a   *)
(* map whose _fromStorage is true, no snapshot is stored, and the          *)
(* Principal has the marker                                                *)
C33_Witness ==
    /\ last.call = "userData"
    /\ last.kind = "getUserData"
    /\ last.arg
    /\ localStorage = NoItem
    /\ Marked(users, last.user)

----------------------------------------------------------------------------
(* validateCurrentSession() *)

(* auth.validateCurrentSession() *)
ValidateCurrentSession ==
    /\ HasFree(ops, NoOp)
    /\ recoverConstructs(Heap) => Len(users) < MaxUsers
    /\ GoTrue_currentUser(Heap).value # NoUser
       => (jwtStartsRace(GoTrue_currentUser(Heap).h, GoTrue_currentUser(Heap).value,
                         FALSE, now)
           => HasFree(races, NoRace))
    /\ Called(validateCurrentSession(Heap, now), "validateCurrentSession",
              GoTrue_currentUser(Heap).value, FALSE, GoTrue_currentUser(Heap).kind)
    /\ UNCHANGED now

NextValidate ==
    \/ \E remember \in BOOLEAN : Login(Undefined, remember)
    \/ AuthResponse
    \/ ValidateCurrentSession
    \/ RequestResponse
    \/ RequestError({JSONHTTPError(Null)})
    \/ RefreshResponse
    \/ RefreshError
    \/ Tick
    \/ Reload

SpecValidate == InitCalls /\ [][NextValidate]_vars


(* A call of validateCurrentSession() that settled in the current task *)
IsValidate(d) == "call" \in DOMAIN d /\ d.call = "validateCurrentSession"

(* validateCurrentSession() resolved with null for User u *)
ValidatedNull(u) ==
    [user |-> u, call |-> "validateCurrentSession", outcome |-> "resolved",
     error |-> Null]

(* C34: validateCurrentSession() never rejects.  When currentUser() returns *)
(* null it resolves with null at once and no request is made.  Else it     *)
(* calls getUserData() on that User: when Transport answers, it resolves   *)
(* with the User, the attributes of the answer merged and its token kept;  *)
(* when jwt() or the request fails, at once or later, it resolves with     *)
(* null, and then the User's token is null, no snapshot is stored and      *)
(* there is no current User.                                               *)
C34_ValidateNeverRejects ==
    [][/\ \A d \in last'.done : IsValidate(d) => d.outcome = "resolved"
       /\ last'.call = "validateCurrentSession" /\ last'.user = NoUser
          => /\ currentUser' = NoUser
             /\ ops' = ops
             /\ races' = races
             /\ ValidatedNull(NoUser) \in last'.done
       /\ last'.call = "validateCurrentSession" /\ last'.user # NoUser
          => \/ /\ currentUser' = last'.user
                /\ \E o \in DOMAIN ops :
                      /\ ops[o] = NoOp
                      /\ ops'[o] # NoOp
                      /\ ops'[o].call = "validateCurrentSession"
                      /\ ops'[o].user = last'.user
             \/ ValidatedNull(last'.user) \in last'.done
       /\ \A d \in last'.done :
             IsValidate(d) /\ d.user # NoUser /\ d.error = Undefined
             => /\ last'.call = "requestResponse"
                /\ last'.arg
                /\ users'[d.user].email = Str("v1")
                /\ users'[d.user].token = users[d.user].token
       /\ \A d \in last'.done :
             IsValidate(d) /\ d.user # NoUser /\ d.error = Null
             => /\ users'[d.user].token = Null
                /\ localStorage' = NoItem
                /\ currentUser' = NoUser
       /\ \A o \in DOMAIN ops :
             /\ ops[o] # NoOp
             /\ ops[o].call = "validateCurrentSession"
             /\ ops'[o] = NoOp
             /\ last'.call # "reload"
             => \E d \in last'.done :
                   /\ IsValidate(d)
                   /\ d.user = ops[o].user
                   /\ d.error = IF last'.call = "requestResponse" /\ last'.arg
                                THEN Undefined ELSE Null]_vars

(* Witness of C34: Transport failed the request of validateCurrentSession() *)
(* of a User: the call resolved with null, the User's token is null, no    *)
(* snapshot is stored and there is no current User                         *)
C34_Witness ==
    /\ last.call = "requestResponse"
    /\ ~last.arg
    /\ last.kind = "validateCurrentSession"
    /\ ValidatedNull(last.user) \in last.done
    /\ users[last.user].token = Null
    /\ localStorage = NoItem
    /\ currentUser = NoUser

----------------------------------------------------------------------------
(* The snapshot and the current User *)

(* A snapshot is stored *)
Stored == localStorage # NoItem /\ "token" \in DOMAIN localStorage

(* The stored snapshot has the token of User u, as _saveSession writes it *)
SnapshotOf(u) == Stored /\ localStorage.token = stringify(users[u].token)

(* C35 as stated: whenever there is a current User and a snapshot is        *)
(* stored, the token of the snapshot is the token of the current User      *)
C35_AsStated ==
    currentUser # NoUser /\ Stored => SnapshotOf(currentUser)

(* Witness of C35: Transport answered the '/user' request of a User that  *)
(* is no longer the current one, and the stored snapshot now has the       *)
(* token of that User and not the token of the current User                *)
C35_Witness ==
    /\ last.call = "requestResponse"
    /\ last.arg
    /\ currentUser # NoUser
    /\ last.user # currentUser
    /\ Holds(currentUser)
    /\ Holds(last.user)
    /\ users[last.user].token # users[currentUser].token
    /\ SnapshotOf(last.user)
    /\ ~SnapshotOf(currentUser)


(* The refresh of a User failed, or its clearSession() was called *)
SessionEnded(e) ==
    \/ e.call = "clearSession"
    \/ e.call \in {"response", "timer"} /\ e.kind = "rejected"

(* C36 as stated: when the refresh of a User that is not the current one   *)
(* fails, or its clearSession() is called, the current User stays the      *)
(* current one, keeps its token, and the stored snapshot stays as it is    *)
C36_AsStated ==
    [][SessionEnded(last') /\ currentUser # NoUser /\ last'.user # currentUser
       => /\ currentUser' = currentUser
          /\ users'[currentUser].token = users[currentUser].token
          /\ localStorage' = localStorage]_vars

(* Witness of C36: the refresh of the first User failed while a second    *)
(* User had been constructed: now there is no current User and no          *)
(* snapshot, and the second User still holds its token                     *)
C36_Witness ==
    /\ last.call = "response"
    /\ last.kind = "rejected"
    /\ last.user = 1
    /\ Len(users) = 2
    /\ Holds(2)
    /\ users[1].token = Null
    /\ currentUser = NoUser
    /\ localStorage = NoItem

----------------------------------------------------------------------------
(* The current User under construction, recovery, refresh, logout and      *)
(* clearSession                                                            *)

NextCurrent ==
    \/ NewUser
    \/ SaveSession
    \/ RecoverSession
    \/ Reload
    \/ Jwt
    \/ RefreshResponse
    \/ RefreshError
    \/ Logout
    \/ LogoutResponse
    \/ ClearSession

SpecCurrent == Init /\ [][NextCurrent]_vars

(* C37: the current User, when there is one, holds a token: the reference  *)
(* is set by the constructor alone, which sets the token, and whatever     *)
(* sets a token to null clears the reference                               *)
C37_CurrentHoldsToken ==
    currentUser # NoUser => Holds(currentUser)

(* Witness of C37: the refresh of the current User succeeded after the     *)
(* session of another User had been cleared; the current User holds a      *)
(* token                                                                   *)
C37_Witness ==
    /\ last.call = "response"
    /\ last.kind = "fulfilled"
    /\ currentUser = last.user
    /\ Holds(currentUser)
    /\ \E u \in UserIds : users[u].token = Null

----------------------------------------------------------------------------
(* login() and verify() that reject *)

(* The '/user' request of the User that login or verify constructed has    *)
(* failed, and the call rejects                                            *)
UserRequestFailed(e) ==
    e.call = "requestResponse" /\ ~e.arg /\ e.kind = "createUser"

(* C38 as stated: when login() or verify() rejects, the current User and   *)
(* the stored snapshot are as before the call: a failed token request      *)
(* changes neither, and when the '/user' request fails the User that the   *)
(* call constructed, who did not exist before it, is not the current one   *)
C38_AsStated ==
    [][/\ last'.call = "authResponse" /\ ~last'.arg
          => currentUser' = currentUser /\ localStorage' = localStorage
       /\ UserRequestFailed(last') => currentUser' # last'.user]_vars

(* Witness of C38: the '/user' request of a login failed and the call      *)
(* rejected; the User it constructed is the current one and holds the      *)
(* token, and no snapshot is stored                                        *)
C38_Witness ==
    /\ UserRequestFailed(last)
    /\ \E d \in last.done :
          d.user = last.user /\ d.call = "createUser" /\ d.outcome = "rejected"
    /\ currentUser = last.user
    /\ Holds(currentUser)
    /\ localStorage = NoItem

----------------------------------------------------------------------------
(* C39: a held token whose expires_at is unset is never stale: at every    *)
(* instant jwt() returns its access token and changes nothing, no request  *)
(* is made, and jwt(true) enters the refresh protocol; a jwt() that was    *)
(* called on such a token resolved with its access token                   *)
C39_UnsetNeverStale ==
    /\ \A u \in UserIds, t \in Instants :
          Holds(u) /\ users[u].token.expires_at = Undefined
          => /\ jwt(Heap, u, FALSE, t) =
                    [h |-> Heap, kind |-> "resolved",
                     value |-> users[u].token.access_token, promise |-> NoPromise]
             /\ ~jwtStartsRace(Heap, u, FALSE, t)
             /\ JwtEnabled(u, TRUE) => jwt(Heap, u, TRUE, t).kind = "promise"
    /\ (/\ last.call = "jwt"
        /\ ~last.arg
        /\ Holds(last.user)
        /\ users[last.user].token.expires_at = Undefined)
       => /\ last.kind = "resolved"
          /\ last.value = users[last.user].token.access_token

(* Witness of C39: jwt() was called on a token whose payload is no JSON    *)
(* and whose expires_at is unset, and resolved with its access token       *)
C39_Witness ==
    /\ last.call = "jwt"
    /\ ~last.arg
    /\ last.kind = "resolved"
    /\ Holds(last.user)
    /\ users[last.user].token.access_token = "h.bad.s"
    /\ users[last.user].token.expires_at = Undefined
    /\ last.value = "h.bad.s"

----------------------------------------------------------------------------
(* Cookie mode after login *)

(* A login or verify made with remember = true has just resolved *)
RememberedLogin(e) ==
    e.call = "requestResponse" /\ e.arg /\ e.kind = "createUser" /\ e.value = "remember"

(* C40 as stated, for currentUser(): with cookie mode enabled, when a login *)
(* made with remember = true has resolved and X-Use-Cookie is "1", a call  *)
(* of currentUser() leaves it "1"                                          *)
C40_AsStated ==
    [][(/\ setCookie
        /\ RememberedLogin(last)
        /\ defaultHeaders.X_Use_Cookie = Str("1")
        /\ last'.call = "currentUser")
       => defaultHeaders'.X_Use_Cookie = Str("1")]_vars

(* Witness of C40: with cookie mode enabled currentUser() returned the     *)
(* current User, who was not recovered from storage and whose snapshot is  *)
(* stored, and X-Use-Cookie is "session"                                   *)
C40_Witness ==
    /\ setCookie
    /\ last.call = "currentUser"
    /\ last.kind = "current"
    /\ currentUser = last.user
    /\ ~Marked(users, currentUser)
    /\ SnapshotOf(currentUser)
    /\ defaultHeaders.X_Use_Cookie = Str("session")

============================================================================
